---- MODULE Spec2Model ----
(***************************************************************************)
(* Ingestion pipeline of the PHIVOLCS earthquake backend: the store upsert *)
(* engine (EarthquakeDatabase.process_live_update, bulk_load_from_json),   *)
(* the daily run loop (DailyUpdateScraper.process_daily_updates) and the   *)
(* manual trigger of the admin front-end (admin_trigger).                  *)
(*                                                                         *)
(* Python values: an optional value is None (the empty tuple) or Some(x)   *)
(* (a one-element tuple); a str is a tuple of one-character strings, so    *)
(* that the regular expressions of the source are computed on characters.  *)
(***************************************************************************)
EXTENDS Integers, Sequences, FiniteSets, TLC

VARIABLES
    seismic_event,   \* table seismic_event: sequence of rows, in eq_id order
    intensities,     \* table intensities: sequence of rows, in intensity_id order
    last,            \* the last store operation: its input, injected fault, return value, session calls
    history,         \* history of the ingestion: records committed, records submitted, faults injected
    run,             \* process_daily_updates: position, link list, counters, return value
    scraper_status,  \* app.py: the global scraper_status dict
    reqs,            \* app.py: position of each /admin/trigger request handler
    threads,         \* app.py: position of each run_scraper background thread
    dedup,           \* bulk_load_from_json up to line 646: the batch and its earthquake_groups
    fetch,           \* fetch_page_with_retry / fetch_page: position, attempts, delays slept
    query,           \* get_earthquakes_filtered: the request and its result
    call             \* a call of a function without side effect: its arguments and its result

storeVars == <<seismic_event, intensities, last, history>>
trigVars == <<scraper_status, reqs, threads>>
vars == <<seismic_event, intensities, last, history, run, scraper_status, reqs, threads, dedup,
         fetch, query, call>>

----------------------------------------------------------------------------
(* Python values *)

None == <<>>
Some(x) == <<x>>
Val(o) == o[1]

\* str(...) of a short text, as the tuple of its characters
FnB1 == <<"2","0","2","5","_","0","8","0","3","_","0","1","4","7","_","B","1">>
FnB2F == <<"2","0","2","5","_","0","8","0","3","_","0","1","4","7","_","B","2","F">>
FnMap == <<"m","a","p","_","B","1">>
ProvAB == <<"A","b"," ","C","d">>

Digits == {"0","1","2","3","4","5","6","7","8","9"}
Letters == {"a","b","c","d","e","f","g","h","i","j","k","l","m","n","o","p","q","r","s","t","u","v","w","x","y","z",
            "A","B","C","D","E","F","G","H","I","J","K","L","M","N","O","P","Q","R","S","T","U","V","W","X","Y","Z"}

RECURSIVE FilterChars(_, _)
FilterChars(s, keep) ==
    IF s = <<>> THEN <<>>
    ELSE IF Head(s) \in keep THEN <<Head(s)>> \o FilterChars(Tail(s), keep)
    ELSE FilterChars(Tail(s), keep)

----------------------------------------------------------------------------
(* EarthquakeDatabase.generate_business_key *)

\* re.match(r"^(\d{4}_\d{4}_\d{4})", filename)
MatchPrefix(filename) ==
    /\ Len(filename) >= 14
    /\ \A i \in 1..14 : IF i \in {5, 10} THEN filename[i] = "_" ELSE filename[i] \in Digits

\* re.sub(r"_B.*$", "", filename): cut at the first "_B"
StripSuffix(filename) ==
    LET hits == {i \in 1..(Len(filename) - 1) : filename[i] = "_" /\ filename[i + 1] = "B"}
    IN IF hits = {} THEN filename
       ELSE SubSeq(filename, 1, (CHOOSE i \in hits : \A j \in hits : i <= j) - 1)

\* province.replace(" ", "_") then re.sub(r"[^a-zA-Z0-9_]", "", province)
CleanProvince(province) ==
    FilterChars([i \in 1..Len(province) |-> IF province[i] = " " THEN "_" ELSE province[i]],
                Letters \cup Digits \cup {"_"})

\* the key made of the whole filename, suffix included
KeyOfWholeFilename(earthquake_data) ==
    IF earthquake_data.filename = None \/ earthquake_data.province = None THEN None
    ELSE Some(Val(earthquake_data.filename) \o <<"_">>
                 \o CleanProvince(Val(earthquake_data.province)))

\* None when the lookup of "filename" or "province" raises (the try/except of the
\* function), otherwise Some(f"{prefix}_{province}")
generate_business_key(earthquake_data) ==
    IF earthquake_data.filename = None \/ earthquake_data.province = None THEN None
    ELSE LET filename == Val(earthquake_data.filename)
             prefix == IF MatchPrefix(filename) THEN SubSeq(filename, 1, 14)
                       ELSE StripSuffix(filename)
         IN Some(prefix \o <<"_">> \o CleanProvince(Val(earthquake_data.province)))

----------------------------------------------------------------------------
(* Inputs *)

\* sequence numbers are 1..MaxSeq or absent
MaxSeq == 2

\* what a bulletin says besides its identity and sequence number
Contents ==
    {[datetime |-> Some("t1"), reported |-> <<>>, instrumental |-> <<>>],
     [datetime |-> Some("t2"),
      reported |-> <<[intensity |-> "IV", locations |-> <<"X", "Y">>]>>,
      instrumental |-> <<>>],
     [datetime |-> Some("t1"),
      reported |-> <<[intensity |-> "III", locations |-> <<"X">>]>>,
      instrumental |-> <<[intensity |-> "II", locations |-> <<"Z">>]>>]}

Plain == CHOOSE c \in Contents : c.reported = <<>>
Felt == CHOOSE c \in Contents : c.instrumental # <<>>

Record(filename, province, eq_no, c) ==
    [filename |-> filename, province |-> province, eq_no |-> eq_no, datetime |-> c.datetime,
     reported_intensities |-> c.reported, instrumental_intensities |-> c.instrumental]

\* the map image of the first event is named after the bulletin revision (_B1, then
\* _B2F); the map image of the second event has no date/time prefix
Revision(n) == IF n = 1 THEN Some(FnB1) ELSE Some(FnB2F)

\* the records handed to the upsert: both events in every sequence number and
\* content, each once without sequence number, and one record without province
Records ==
    {Record(Revision(n), Some(ProvAB), Some(n), c) : n \in 1..MaxSeq, c \in Contents}
    \cup {Record(Some(FnMap), Some(ProvAB), Some(n), c) : n \in 1..MaxSeq, c \in Contents}
    \cup {Record(Some(FnB1), Some(ProvAB), None, Plain),
          Record(Some(FnMap), Some(ProvAB), None, Plain),
          Record(Some(FnB1), None, Some(1), Plain)}

\* the records of a JSON file handed to the bulk load, and the files: unreadable, or
\* a list of at most two different records
BulkRecords ==
    {r \in Records : /\ r.datetime = Felt.datetime /\ r.reported_intensities = Felt.reported
                     /\ (r.filename = Some(FnMap) => r.eq_no = Some(1))}
    \cup {r \in Records : r.province = None}

\* the records handed to a live update between bulk loads: without observations or
\* with reported ones, the second event in its first bulletin only
IngestRecords ==
    {r \in Records : /\ r.instrumental_intensities = <<>>
                     /\ (r.filename = Some(FnMap) => r.eq_no = Some(1))}

BulkFiles ==
    ({None} \cup {Some(<<a>>) : a \in BulkRecords}
            \cup {Some(<<a, b>>) : a, b \in BulkRecords})
    \ {Some(<<a, a>>) : a \in BulkRecords}

\* the store fault each record of a bulk load meets: at most one record meets one.
\* get_session raises only while it has to connect (lines 558-559, 438-442), which
\* is at the first record: connect leaves the engine set (line 434).
BulkFaults ==
    {<<"none", "none">>, <<"flush", "none">>, <<"none", "flush">>,
     <<"get_session", "none">>}

\* generate_business_key is a function of the record alone: its values on the input
\* records, computed once
business_keys == [r \in Records |-> generate_business_key(r)]

Range(s) == {s[i] : i \in DOMAIN s}

----------------------------------------------------------------------------
(* The store: models.py and the SQLAlchemy session *)

\* a database state: both tables
DB(events, obs) == [seismic_event |-> events, intensities |-> obs]

\* an explosion that makes one row per list entry, at its first location only
RECURSIVE ExplodeFirstLocation(_, _)
ExplodeFirstLocation(kind, list) ==
    IF list = <<>> THEN <<>>
    ELSE <<[intensity_type |-> kind,
            intensity_value |-> Head(list).intensity,
            location |-> Head(list).locations[1]]>>
         \o ExplodeFirstLocation(kind, Tail(list))

\* the (intensity_type, intensity_value, location) rows one intensity list explodes to:
\* for intensity_data in list: for location in intensity_data["locations"]
RECURSIVE ExplodeList(_, _)
ExplodeList(kind, list) ==
    IF list = <<>> THEN <<>>
    ELSE [i \in 1..Len(Head(list).locations) |->
             [intensity_type |-> kind,
              intensity_value |-> Head(list).intensity,
              location |-> Head(list).locations[i]]]
         \o ExplodeList(kind, Tail(list))

\* the Intensities objects appended for one record: reported first, then instrumental
Explode(eq_dict) ==
    ExplodeList("reported", eq_dict.reported_intensities)
    \o ExplodeList("instrumental", eq_dict.instrumental_intensities)

\* the scalar columns a record is stored with (datetime stands for the columns that
\* are copied through unchanged: coordinates, region, depth, magnitude, authors, ...)
Scalars(eq_dict, business_key) ==
    [eq_business_key |-> business_key,
     eq_no |-> eq_dict.eq_no,
     datetime |-> eq_dict.datetime,
     filename |-> eq_dict.filename,
     province |-> eq_dict.province]

\* SeismicEvent(...) with eq.intensities appended, then session.add(eq): the pending
\* state of the session. eq_id and intensity_id are autoincrement keys.
AddEvent(db, eq_dict, business_key) ==
    LET eq_id == Len(db.seismic_event) + 1
        row == [eq_id |-> eq_id] @@ Scalars(eq_dict, business_key)
        obs == Explode(eq_dict)
        n == Len(db.intensities)
    IN DB(Append(db.seismic_event, row),
          db.intensities \o [i \in 1..Len(obs) |->
              [intensity_id |-> n + i, eq_id |-> Some(eq_id)] @@ obs[i]])

\* session.query(SeismicEvent).filter(eq_business_key == business_key).first():
\* None or Some(row). A NULL business key matches no row.
QueryFirst(db, business_key) ==
    LET hits == {i \in 1..Len(db.seismic_event) :
                    db.seismic_event[i].eq_business_key = business_key}
    IN IF business_key = None \/ hits = {} THEN None
       ELSE Some(db.seismic_event[CHOOSE i \in hits : \A j \in hits : i <= j])

\* session.query(SeismicEvent).filter(...).update({...}): every scalar column of the
\* matching rows is overwritten, eq_id stays
UpdateScalars(db, eq_dict, business_key) ==
    DB([i \in 1..Len(db.seismic_event) |->
           IF db.seismic_event[i].eq_business_key = business_key
           THEN [eq_id |-> db.seismic_event[i].eq_id] @@ Scalars(eq_dict, business_key)
           ELSE db.seismic_event[i]],
       db.intensities)

\* a clear() that is forgotten: the stored observations stay with the event
ClearNothing(db, eq_id) == db

\* existing_record.intensities.clear(): the relationship declares no delete
\* cascade, so the unit of work detaches the children by setting their foreign
\* key to NULL at the next flush
ClearIntensities(db, eq_id) ==
    DB(db.seismic_event,
       [i \in 1..Len(db.intensities) |->
           IF db.intensities[i].eq_id = Some(eq_id)
           THEN [db.intensities[i] EXCEPT !.eq_id = None]
           ELSE db.intensities[i]])

\* existing_record.intensities.append(...) for the record's exploded lists
AppendIntensities(db, eq_id, eq_dict) ==
    LET obs == Explode(eq_dict)
        n == Len(db.intensities)
    IN DB(db.seismic_event,
          db.intensities \o [i \in 1..Len(obs) |->
              [intensity_id |-> n + i, eq_id |-> Some(eq_id)] @@ obs[i]])

\* a schema without the unique constraint
NoUniqueViolation(db) == FALSE

\* eq_business_key = Column(String(50), unique=True)
UniqueViolation(db) ==
    \E i, j \in 1..Len(db.seismic_event) :
        /\ i # j
        /\ db.seismic_event[i].eq_business_key # None
        /\ db.seismic_event[i].eq_business_key = db.seismic_event[j].eq_business_key

\* eq_id = Column(Integer, ForeignKey("seismic_event.eq_id"), nullable=False)
NotNullViolation(db) ==
    \E i \in 1..Len(db.intensities) : db.intensities[i].eq_id = None

\* session.commit() raises when the flush violates a constraint of the schema or the
\* store fails (fault "flush")
CommitRaises(pending, fault) ==
    fault = "flush" \/ UniqueViolation(pending) \/ NotNullViolation(pending)

\* session.rollback(): the database keeps its last committed state
KeepPending(committed, pending) == pending

Rollback(committed, pending) == committed

----------------------------------------------------------------------------
(* EarthquakeDatabase.process_live_update *)

\* the return values of process_live_update, and an exception leaving the function
Inserted == "Successful inserting new earthquake"
Updated == "Successful updating earthquake"
Skipped == "Successful skipping earthquake"
ReturnsNone == "None"
Raises == "exception"

\* where the store can fail inside one operation: creating the session, the lookup
\* query, the flush of the writes at commit
Faults == {"none", "get_session", "query", "flush"}

\* what one call does: the database it leaves, what it returns, the session calls it
\* made, and whether an exception was raised inside it
Outcome(db, ret, calls, raised) == [db |-> db, ret |-> ret, calls |-> calls, raised |-> raised]

\* lines 778-838: no existing record
InsertBranch(db, eq_dict, business_key, fault) ==
    IF business_key = None
    THEN \* eq_dict["eq_business_key"] raises KeyError: rollback (line 837), then
         \* existing_record.eq_no on None raises (line 841): return None (line 912)
         Outcome(db, ReturnsNone, <<"get_session", "query", "rollback", "close">>, TRUE)
    ELSE LET pending == AddEvent(db, eq_dict, business_key)
         IN IF CommitRaises(pending, fault)
            THEN Outcome(Rollback(db, pending), ReturnsNone,
                         <<"get_session", "query", "add", "commit", "rollback", "close">>, TRUE)
            ELSE Outcome(pending, Inserted,
                         <<"get_session", "query", "add", "commit", "close">>, FALSE)

\* lines 842-902: the existing record is older
UpdateBranch(db, eq_dict, business_key, existing_record, fault) ==
    LET pending == AppendIntensities(
                       ClearIntensities(UpdateScalars(db, eq_dict, business_key),
                                        existing_record.eq_id),
                       existing_record.eq_id, eq_dict)
    IN IF CommitRaises(pending, fault)
       THEN Outcome(Rollback(db, pending), ReturnsNone,
                    <<"get_session", "query", "update", "commit", "rollback", "close">>, TRUE)
       ELSE Outcome(pending, Updated,
                    <<"get_session", "query", "update", "commit", "close">>, FALSE)

\* the comparison of line 841 with the equal sequence number let through
IsNewerOrEqual(existing_eq_no, eq_no) == existing_eq_no <= eq_no

\* line 841: existing_record.eq_no < eq_dict["eq_no"]
IsNewer(existing_eq_no, eq_no) == existing_eq_no < eq_no

process_live_update(db, eq_dict, fault) ==
    IF fault = "get_session"
    THEN \* line 757 is outside the try: the exception leaves the function
         Outcome(db, Raises, <<"get_session">>, TRUE)
    ELSE
    LET business_key == business_keys[eq_dict]
    IN IF fault = "query"
       THEN Outcome(db, ReturnsNone, <<"get_session", "query", "close">>, TRUE)
       ELSE
       LET existing_record == QueryFirst(db, business_key)
       IN IF existing_record = None
          THEN InsertBranch(db, eq_dict, business_key, fault)
          ELSE IF Val(existing_record).eq_no = None \/ eq_dict.eq_no = None
          THEN \* line 841: None < int raises TypeError, caught at line 910
               Outcome(db, ReturnsNone, <<"get_session", "query", "close">>, TRUE)
          ELSE IF IsNewer(Val(Val(existing_record).eq_no), Val(eq_dict.eq_no))
          THEN UpdateBranch(db, eq_dict, business_key, Val(existing_record), fault)
          ELSE Outcome(db, Skipped, <<"get_session", "query", "close">>, FALSE)

----------------------------------------------------------------------------
(* EarthquakeDatabase.is_better_version and bulk_load_from_json *)

\* the comparison of line 609 with the equal sequence number let through
IsBetterOrEqualVersion(new_eq, current_eq) ==
    IF new_eq.eq_no = None /\ current_eq.eq_no = None THEN FALSE
    ELSE IF new_eq.eq_no = None THEN FALSE
    ELSE IF current_eq.eq_no = None THEN TRUE
    ELSE Val(new_eq.eq_no) >= Val(current_eq.eq_no)

is_better_version(new_eq, current_eq) ==
    IF new_eq.eq_no = None /\ current_eq.eq_no = None THEN FALSE
    ELSE IF new_eq.eq_no = None THEN FALSE
    ELSE IF current_eq.eq_no = None THEN TRUE
    ELSE Val(new_eq.eq_no) > Val(current_eq.eq_no)

\* lines 625-641: earthquake_groups is a dict, which keeps its keys in insertion
\* order; it is modelled as the sequence of its (key, value) items
RECURSIVE Deduplicate(_, _)
Deduplicate(data, earthquake_groups) ==
    IF data = <<>> THEN earthquake_groups
    ELSE
    LET earthquake == Head(data)
        business_key == business_keys[earthquake]
        at == {i \in 1..Len(earthquake_groups) : earthquake_groups[i].key = business_key}
    IN IF business_key = None THEN Deduplicate(Tail(data), earthquake_groups)
       ELSE IF at = {}
       THEN Deduplicate(Tail(data),
                        Append(earthquake_groups, [key |-> business_key, value |-> earthquake]))
       ELSE LET i == CHOOSE i \in at : TRUE
            IN IF is_better_version(earthquake, earthquake_groups[i].value)
               THEN Deduplicate(Tail(data), [earthquake_groups EXCEPT ![i].value = earthquake])
               ELSE Deduplicate(Tail(data), earthquake_groups)

\* line 643: data = list(earthquake_groups.values())
GroupValues(earthquake_groups) ==
    [i \in 1..Len(earthquake_groups) |-> earthquake_groups[i].value]

\* lines 652-663: the records that get a business key
RECURSIVE ProcessedData(_)
ProcessedData(data) ==
    IF data = <<>> THEN <<>>
    ELSE IF business_keys[Head(data)] # None
    THEN <<Head(data)>> \o ProcessedData(Tail(data))
    ELSE ProcessedData(Tail(data))

\* lines 673-739: one session and one transaction per record. faults[i] is the store
\* fault met by the i-th record. acc carries the database, both counters and the
\* records inserted; aborted is set when get_session raises (line 674 is outside the
\* inner try, so the exception ends the function at line 751).
RECURSIVE InsertEach(_, _, _, _)
InsertEach(processed_data, faults, i, acc) ==
    IF i > Len(processed_data) THEN acc
    ELSE IF faults[i] = "get_session" THEN [acc EXCEPT !.aborted = TRUE]
    ELSE
    LET earthquake == processed_data[i]
        pending == AddEvent(acc.db, earthquake, business_keys[earthquake])
    IN IF CommitRaises(pending, faults[i])
       THEN InsertEach(processed_data, faults, i + 1,
                       [acc EXCEPT !.db = Rollback(acc.db, pending),
                                   !.failed_inserts = @ + 1])
       ELSE InsertEach(processed_data, faults, i + 1,
                       [acc EXCEPT !.db = pending,
                                   !.succesful_inserts = @ + 1,
                                   !.inserted = Append(@, earthquake)])

\* json_file is None when the file cannot be opened or parsed (line 617-618 raise),
\* otherwise Some(list of records). Returns the database, the statistics (None when
\* the function returns None) and the records inserted.
bulk_load_from_json(db, json_file, faults) ==
    IF json_file = None THEN [db |-> db, stats |-> None, inserted |-> <<>>]
    ELSE
    LET data == GroupValues(Deduplicate(Val(json_file), <<>>))
        processed_data == ProcessedData(data)
        failed_business_keys == Len(data) - Len(processed_data)
        acc == InsertEach(processed_data, faults, 1,
                          [db |-> db, succesful_inserts |-> 0, failed_inserts |-> 0,
                           inserted |-> <<>>, aborted |-> FALSE])
    IN [db |-> acc.db,
        stats |-> IF acc.aborted THEN None
                  ELSE Some([total_loaded |-> Len(data),
                             processed_successfully |-> Len(processed_data),
                             failed_business_keys |-> failed_business_keys,
                             succesful_inserts |-> acc.succesful_inserts,
                             failed_inserts |-> acc.failed_inserts,
                             ready_for_insert |-> Len(processed_data)]),
        inserted |-> acc.inserted]

----------------------------------------------------------------------------
(* The store under live updates: specification Spec *)

InitStore ==
    /\ seismic_event = <<>>
    /\ intensities = <<>>
    /\ last = [op |-> "none"]
    /\ history = [version |-> [k \in {} |-> None], submitted_max |-> [k \in {} |-> None],
                  faulted |-> FALSE]

InitRun == run = [pc |-> "idle"]

InitTrigger ==
    /\ scraper_status = [running |-> FALSE, last_run |-> None, last_result |-> None,
                         current_progress |-> None]
    /\ reqs = <<>>
    /\ threads = <<>>

InitDedup == dedup = [pc |-> "idle"]

InitFetch == fetch = [pc |-> "idle"]

InitQuery == query = [pc |-> "idle"]

InitCall == call = [fn |-> "none"]

Init == InitStore /\ InitRun /\ InitTrigger /\ InitDedup /\ InitFetch /\ InitQuery /\ InitCall

\* a fault is injected only where the operation reaches it: "flush" needs a commit
Reaches(fault, calls) == fault = "flush" => "commit" \in Range(calls)

\* one call of process_live_update(eq_dict)
LiveUpdate ==
    \E eq_dict \in Records, fault \in Faults :
        \E out \in {process_live_update(DB(seismic_event, intensities), eq_dict, fault)} :
           /\ Reaches(fault, out.calls)
           /\ seismic_event' = out.db.seismic_event
           /\ intensities' = out.db.intensities
           /\ last' = [op |-> "process_live_update", arg |-> eq_dict, fault |-> fault,
                       ret |-> out.ret, calls |-> out.calls, raised |-> out.raised]
           /\ UNCHANGED <<history, run, trigVars, dedup, fetch, query, call>>

Next == LiveUpdate

Spec == Init /\ [][Next]_vars

----------------------------------------------------------------------------
(* What the claims on the upsert speak of *)

\* the columns of a row besides its surrogate key
RowScalars(row) == [f \in DOMAIN row \ {"eq_id"} |-> row[f]]

\* the rows of seismic_event stored under a business key
RowsOf(db, business_key) ==
    {i \in 1..Len(db.seismic_event) : db.seismic_event[i].eq_business_key = business_key}

\* the intensity rows owned by an event, as (type, value, location) records
ObsOf(db, eq_id) ==
    LET own == SelectSeq(db.intensities, LAMBDA o : o.eq_id = Some(eq_id))
    IN [i \in 1..Len(own) |->
           [intensity_type |-> own[i].intensity_type,
            intensity_value |-> own[i].intensity_value,
            location |-> own[i].location]]

\* the (kind, intensity, location) triples of one intensity list of a record
PairsOf(kind, list) ==
    UNION {{[intensity_type |-> kind,
             intensity_value |-> list[i].intensity,
             location |-> list[i].locations[n]] : n \in DOMAIN list[i].locations} :
           i \in DOMAIN list}

ExpectedObs(a) ==
    PairsOf("reported", a.reported_intensities)
    \cup PairsOf("instrumental", a.instrumental_intensities)

\* the event owns exactly one observation for every triple of record a, and no other
OwnsExactly(db, eq_id, a) ==
    /\ Range(ObsOf(db, eq_id)) = ExpectedObs(a)
    /\ Len(ObsOf(db, eq_id)) = Cardinality(ExpectedObs(a))

\* the store holds exactly one event under a's business key, and it is a
StoredAs(db, a) ==
    /\ Cardinality(RowsOf(db, business_keys[a])) = 1
    /\ \A i \in RowsOf(db, business_keys[a]) :
          /\ RowScalars(db.seismic_event[i]) = Scalars(a, business_keys[a])
          /\ OwnsExactly(db, db.seismic_event[i].eq_id, a)

Before == DB(seismic_event, intensities)
After == DB(seismic_event', intensities')

\* the step is a call process_live_update(a) that met no store fault
CallsLiveUpdate(a) ==
    /\ last'.op = "process_live_update"
    /\ last'.arg = a
    /\ last'.fault = "none"

\* record a is newer than, or not newer than, the event stored under its key
StoredOlder(db, a) ==
    /\ a.eq_no # None
    /\ \E i \in RowsOf(db, business_keys[a]) :
          /\ db.seismic_event[i].eq_no # None
          /\ Val(a.eq_no) > Val(db.seismic_event[i].eq_no)

StoredNotOlder(db, a) ==
    /\ a.eq_no # None
    /\ \E i \in RowsOf(db, business_keys[a]) :
          /\ db.seismic_event[i].eq_no # None
          /\ Val(db.seismic_event[i].eq_no) >= Val(a.eq_no)

\* C1: a record with a higher sequence number than the stored event of its business
\* key is answered Updated and replaces the event's scalar fields and all of its
\* Intensity Observations, also when the stored event has observations.
C1_UpdateReplaces ==
    [][\A a \in Records :
          (CallsLiveUpdate(a) /\ StoredOlder(Before, a))
          => (last'.ret = Updated /\ StoredAs(After, a))]_vars

\* C2: a record that is not newer than the stored event of its business key is
\* answered Skipped and the whole store stays as it was; the same record applied twice
\* in succession is answered Inserted, then Skipped, with the store unchanged by the
\* second application.
C2_SkipLeavesStore ==
    [][\A a \in Records :
          /\ (CallsLiveUpdate(a) /\ StoredNotOlder(Before, a))
             => (last'.ret = Skipped /\ After = Before)
          /\ (/\ CallsLiveUpdate(a) /\ a.eq_no # None
              /\ last.op = "process_live_update" /\ last.arg = a /\ last.ret = Inserted)
             => (last'.ret = Skipped /\ After = Before)]_vars

\* a record was skipped against a stored event of the same sequence number and other
\* content
C2_Witness ==
    /\ last.op = "process_live_update"
    /\ last.ret = Skipped
    /\ \E i \in RowsOf(Before, business_keys[last.arg]) :
          /\ seismic_event[i].eq_no = last.arg.eq_no
          /\ seismic_event[i].datetime # last.arg.datetime

\* C3: a record with a derivable business key that the store holds no event for is
\* answered Inserted; afterwards exactly one event has that key, with the record's
\* scalar fields and one observation per (intensity, location) pair of each list, and
\* every other row is as before.
C3_InsertStoresRecord ==
    [][\A a \in Records :
          (/\ CallsLiveUpdate(a)
           /\ business_keys[a] # None
           /\ RowsOf(Before, business_keys[a]) = {})
          => /\ last'.ret = Inserted
             /\ StoredAs(After, a)
             /\ Len(seismic_event') = Len(seismic_event) + 1
             /\ SubSeq(seismic_event', 1, Len(seismic_event)) = seismic_event
             /\ SubSeq(intensities', 1, Len(intensities)) = intensities
             /\ \A i \in (Len(intensities) + 1)..Len(intensities') :
                   intensities'[i].eq_id = Some(Len(seismic_event'))]_vars

\* a record with observations of both kinds, at several places, was inserted beside
\* another event
C3_Witness ==
    /\ last.op = "process_live_update"
    /\ last.ret = Inserted
    /\ Len(seismic_event) = 2
    /\ last.arg.instrumental_intensities # <<>>
    /\ \E i \in DOMAIN seismic_event : Len(ObsOf(Before, seismic_event[i].eq_id)) = 2

\* C7: a record whose business key cannot be derived is answered with a failure
\* and the store is not accessed: no lookup query, no write.
C7_NoKeyNoStoreAccess ==
    (/\ last.op = "process_live_update"
     /\ last.fault = "none"
     /\ business_keys[last.arg] = None)
    => /\ last.ret = ReturnsNone
       /\ Range(last.calls) \cap {"query", "add", "update", "commit"} = {}

----------------------------------------------------------------------------
(* The store under live updates and bulk loads, with the history of what was     *)
(* submitted and committed: specification SpecIngest                             *)

\* the larger of two optional sequence numbers
MaxOpt(a, b) ==
    IF a = None THEN b ELSE IF b = None THEN a ELSE IF Val(a) >= Val(b) THEN a ELSE b

\* submitted_max after the records of a list were handed to an operation
RECURSIVE Submit(_, _)
Submit(submitted_max, data) ==
    IF data = <<>> THEN submitted_max
    ELSE LET business_key == business_keys[Head(data)]
         IN IF business_key = None THEN Submit(submitted_max, Tail(data))
            ELSE LET k == Val(business_key)
                     before == IF k \in DOMAIN submitted_max THEN submitted_max[k] ELSE None
                 IN Submit((k :> MaxOpt(before, Head(data).eq_no)) @@ submitted_max, Tail(data))

\* version after the records of a list were committed, the later ones last
RECURSIVE Committed(_, _)
Committed(version, inserted) ==
    IF inserted = <<>> THEN version
    ELSE Committed((Val(business_keys[Head(inserted)]) :> Head(inserted)) @@ version,
                   Tail(inserted))

IngestLive ==
    \E eq_dict \in IngestRecords, fault \in Faults :
        \E out \in {process_live_update(DB(seismic_event, intensities), eq_dict, fault)} :
           /\ Reaches(fault, out.calls)
           /\ seismic_event' = out.db.seismic_event
           /\ intensities' = out.db.intensities
           /\ last' = [op |-> "process_live_update", ret |-> out.ret, calls |-> out.calls,
                       raised |-> out.raised]
           /\ history' = [version |-> IF out.ret \in {Inserted, Updated}
                                      THEN Committed(history.version, <<eq_dict>>)
                                      ELSE history.version,
                          submitted_max |-> Submit(history.submitted_max, <<eq_dict>>),
                          faulted |-> history.faulted \/ fault # "none"]
           /\ UNCHANGED <<run, trigVars, dedup, fetch, query, call>>

\* one call of bulk_load_from_json(json_file_path)
IngestBulk ==
    \E json_file \in BulkFiles, faults \in BulkFaults :
        \E out \in {bulk_load_from_json(DB(seismic_event, intensities), json_file, faults)},
           n \in {IF json_file = None THEN 0
                 ELSE Len(ProcessedData(GroupValues(Deduplicate(Val(json_file), <<>>))))} :
           /\ \A i \in DOMAIN faults : faults[i] # "none" => i <= n
           /\ seismic_event' = out.db.seismic_event
           /\ intensities' = out.db.intensities
           /\ last' = [op |-> "bulk_load_from_json",
                       ret |-> IF out.stats = None THEN ReturnsNone ELSE "statistics",
                       stats |-> out.stats,
                       ready |-> n]
           /\ history' = [version |-> Committed(history.version, out.inserted),
                          submitted_max |-> IF json_file = None THEN history.submitted_max
                                            ELSE Submit(history.submitted_max, Val(json_file)),
                          faulted |-> history.faulted \/ json_file = None
                                      \/ faults # <<"none", "none">>]
           /\ UNCHANGED <<run, trigVars, dedup, fetch, query, call>>

NextIngest == IngestLive \/ IngestBulk

SpecIngest == Init /\ [][NextIngest]_vars

\* C4: with no store fault injected, every stored event that has a sequence number
\* carries the highest sequence number among the records of its business key
\* submitted to a live update or a bulk load.
C4_StoredIsMaxSubmitted ==
    ~history.faulted
    => \A i \in DOMAIN seismic_event :
          seismic_event[i].eq_no # None
          => seismic_event[i].eq_no = history.submitted_max[Val(seismic_event[i].eq_business_key)]

\* C5: no two stored events have the same business key.
C5_UniqueBusinessKey ==
    \A i, j \in DOMAIN seismic_event :
        i # j => seismic_event[i].eq_business_key # seismic_event[j].eq_business_key

\* a bulk load that met no store fault had an insert refused by the store
C5_Witness ==
    /\ last.op = "bulk_load_from_json"
    /\ ~history.faulted
    /\ last.stats # None
    /\ Val(last.stats).failed_inserts >= 1
    /\ Len(seismic_event) >= 1

\* C8: every stored event carries the scalar fields and exactly the observations of
\* one record version, the one last committed for its key; no observation is left
\* without its event.
C8_ObservationsOfStoredVersion ==
    /\ \A i \in DOMAIN seismic_event :
          LET k == Val(seismic_event[i].eq_business_key)
          IN /\ k \in DOMAIN history.version
             /\ RowScalars(seismic_event[i]) = Scalars(history.version[k], Some(k))
             /\ OwnsExactly(Before, seismic_event[i].eq_id, history.version[k])
    /\ \A i \in DOMAIN intensities :
          /\ intensities[i].eq_id # None
          /\ Val(intensities[i].eq_id) \in {seismic_event[j].eq_id : j \in DOMAIN seismic_event}

\* an update of an event that has observations was rolled back
C8_Witness ==
    /\ last.op = "process_live_update"
    /\ last.ret = ReturnsNone
    /\ {"update", "rollback"} \subseteq Range(last.calls)
    /\ intensities # <<>>


----------------------------------------------------------------------------
(* The pre-deduplication step of bulk_load_from_json: specification SpecDedup *)

MaxBatch == 3

\* the records of a batch: the first event in every sequence number, without and with
\* observations, once without sequence number; the second event; a record without key
DedupRecords ==
    {r \in Records : /\ r.filename # Some(FnMap)
                     /\ \/ r.datetime = Plain.datetime /\ r.reported_intensities = Plain.reported
                        \/ r.reported_intensities = Felt.reported}
    \cup {Record(Some(FnMap), Some(ProvAB), Some(1), Plain)}

Batches == UNION {[1..n -> DedupRecords] : n \in 0..MaxBatch}

InitBatch ==
    /\ InitStore /\ InitRun /\ InitTrigger /\ InitFetch /\ InitQuery /\ InitCall
    /\ dedup \in {[pc |-> "loaded", data |-> data] : data \in Batches}

\* lines 622-646 on the batch loaded
DeduplicateBatch ==
    /\ dedup.pc = "loaded"
    /\ dedup' = [pc |-> "deduplicated", data |-> dedup.data,
                 earthquake_groups |-> Deduplicate(dedup.data, <<>>)]
    /\ UNCHANGED <<storeVars, run, trigVars, fetch, query, call>>

NextDedup == DeduplicateBatch

SpecDedup == InitBatch /\ [][NextDedup]_vars

\* the records of a batch with a business key, in input order
WithKey(data, business_key) ==
    {i \in DOMAIN data : business_keys[data[i]] = business_key}

\* a sequence number is at least another one; no sequence number is the lowest
AtLeast(a, b) == b = None \/ (a # None /\ Val(a) >= Val(b))

\* the retained sequence number of every key
Retained(earthquake_groups) ==
    {<<earthquake_groups[i].key, earthquake_groups[i].value.eq_no>> :
        i \in DOMAIN earthquake_groups}

Reorder(data, p) == [i \in DOMAIN data |-> data[p[i]]]

\* C10: the deduplication keeps exactly one candidate per business key of the batch;
\* the candidate has the maximum sequence number among the records of its key and is
\* the first of them in input order with that sequence number; the retained sequence
\* number of every key is the same for every order of the batch.
C10_DedupKeepsMaxFirstSeen ==
    dedup.pc = "deduplicated" =>
       LET data == dedup.data
           groups == dedup.earthquake_groups
       IN /\ {groups[i].key : i \in DOMAIN groups}
                = {business_keys[data[i]] : i \in DOMAIN data} \ {None}
          /\ \A i, j \in DOMAIN groups : i # j => groups[i].key # groups[j].key
          /\ \A g \in DOMAIN groups :
                \E i \in WithKey(data, groups[g].key) :
                   /\ groups[g].value = data[i]
                   /\ \A j \in WithKey(data, groups[g].key) :
                         /\ AtLeast(data[i].eq_no, data[j].eq_no)
                         /\ data[j].eq_no = data[i].eq_no => i <= j
          /\ \A p \in Permutations(DOMAIN data) :
                Retained(Deduplicate(Reorder(data, p), <<>>)) = Retained(groups)

\* C10 witness: a batch of three records of one key, a lower sequence number first and
\* then two different records that tie for the maximum, has been deduplicated
C10_Witness ==
    /\ dedup.pc = "deduplicated"
    /\ Len(dedup.data) = 3
    /\ Len(dedup.earthquake_groups) = 1
    /\ dedup.data[1].eq_no = Some(1)
    /\ dedup.data[2].eq_no = Some(MaxSeq)
    /\ dedup.data[3].eq_no = Some(MaxSeq)
    /\ dedup.data[2] # dedup.data[3]
    /\ dedup.earthquake_groups[1].value = dedup.data[2]

----------------------------------------------------------------------------
(* DailyUpdateScraper.process_daily_updates: specification SpecRun *)

MaxLinks == 3

NoDataScraped == "Failed: No data scraped"
InvalidData == "Failed: Invalid data"
ReturnedNone == "Failed: Database operation returned None"

\* what scrape_single_event does on a link: it raises, returns None or returns a record
ScrapeRaises == [outcome |-> "raises", value |-> None]
ScrapeReturns(value) == [outcome |-> "returns", value |-> value]

\* the records scraped in a run: an event as first bulletin and as last revision, a
\* record without sequence number, one without date and one with sequence number 0
RunRecords ==
    {Record(Revision(1), Some(ProvAB), Some(1), Felt),
     Record(Revision(MaxSeq), Some(ProvAB), Some(MaxSeq), Felt),
     Record(Some(FnB1), Some(ProvAB), None, Plain),
     [Record(Some(FnB1), Some(ProvAB), Some(1), Plain) EXCEPT !.datetime = None],
     [Record(Some(FnB1), Some(ProvAB), Some(1), Plain) EXCEPT !.eq_no = Some(0)]}

Links == {ScrapeRaises, ScrapeReturns(None)} \cup {ScrapeReturns(Some(r)) : r \in RunRecords}

\* the main page: not fetched, or the links each extraction strategy finds in it.
\* The regex fallback runs only when the first strategy finds nothing (line 265);
\* it finds nothing or one link.
Pages ==
    {None}
    \cup {Some([primary |-> links, fallback |-> <<>>]) :
             links \in UNION {[1..n -> Links] : n \in 1..MaxLinks}}
    \cup {Some([primary |-> <<>>, fallback |-> more]) : more \in {<<>>, <<ScrapeReturns(None)>>}}

\* lines 263-267: the links after the comment, or else those the regex finds
ExtractLinks(page) == IF page.primary # <<>> THEN page.primary ELSE page.fallback

\* the test of line 269 never true
NeverNoLinks(links) == FALSE

\* line 269: "if not links"
NoLinks(links) == links = <<>>

\* what a run does outside the process, in order: <<"fetch", 0>> is the request for
\* the main page, <<"fetch", i>> the request for the page of link i, <<"upsert", i>>
\* the call of process_live_update for it, <<"sleep", i>> the delay after it
IndexFetch == <<"fetch", 0>>

\* the loop without its time.sleep
NoRateLimit(log, i) == log

\* line 314: time.sleep(self.request_delay)
RateLimit(log, i) == Append(log, <<"sleep", i>>)

\* "not scrape_eq.get(...)": None and 0 are false
Falsy(field) == field = None \/ Val(field) = 0

\* the substring tests of lines 287-291 on the results of scrape_and_update_single_eq
Contains(word, result) ==
    CASE word = "Successful" -> result \in {Inserted, Updated, Skipped}
      [] word = "inserting" -> result = Inserted
      [] word = "updating" -> result = Updated
      [] word = "skipping" -> result = Skipped

\* lines 206-231. upsert is None when process_live_update is not called, else its
\* outcome; raised when an exception leaves the function.
scrape_and_update_single_eq(db, link, fault) ==
    IF link.outcome = "raises"
    THEN [db |-> db, result |-> Raises, raised |-> TRUE, upsert |-> None]
    ELSE IF link.value = None
    THEN [db |-> db, result |-> NoDataScraped, raised |-> FALSE, upsert |-> None]
    ELSE
    LET scrape_eq == Val(link.value)
    IN IF Falsy(scrape_eq.eq_no) \/ scrape_eq.datetime = None
       THEN [db |-> db, result |-> InvalidData, raised |-> FALSE, upsert |-> None]
       ELSE LET upsert == process_live_update(db, scrape_eq, fault)
            IN IF upsert.ret = Raises
               THEN [db |-> upsert.db, result |-> Raises, raised |-> TRUE,
                     upsert |-> Some(upsert)]
               ELSE IF upsert.ret = ReturnsNone
               THEN [db |-> upsert.db, result |-> ReturnedNone, raised |-> FALSE,
                     upsert |-> Some(upsert)]
               ELSE [db |-> upsert.db, result |-> upsert.ret, raised |-> FALSE,
                     upsert |-> Some(upsert)]

\* the store failed during the upsert: a fault was met, or the commit raised
StoreFailure(upsert, fault) ==
    /\ upsert # None
    /\ \/ fault # "none"
       \/ {"commit", "rollback"} \subseteq Range(Val(upsert).calls)

\* the count that takes a skipped event for a stored one
TallySkippedAsSuccessful(r, result, log) ==
    IF Contains("Successful", result)
    THEN [r EXCEPT !.i = @ + 1, !.successful = @ + 1, !.log = log]
    ELSE [r EXCEPT !.i = @ + 1, !.failed = @ + 1, !.log = log]

\* lines 287-301: the result of one link is counted
Tally(r, result, log) ==
    IF Contains("Successful", result)
    THEN IF Contains("inserting", result) \/ Contains("updating", result)
         THEN [r EXCEPT !.i = @ + 1, !.successful = @ + 1, !.log = log]
         ELSE IF Contains("skipping", result)
         THEN [r EXCEPT !.i = @ + 1, !.skipped = @ + 1, !.log = log]
         ELSE [r EXCEPT !.i = @ + 1, !.successful = @ + 1, !.log = log]
    ELSE [r EXCEPT !.i = @ + 1, !.failed = @ + 1, !.log = log]

\* the loop body without its except clause: an exception ends the run
AbortOnException(r, raised, result, log) ==
    IF raised THEN [pc |-> "returned", result |-> None, log |-> log]
    ELSE Tally(r, result, log)

\* lines 285-305: the try of the loop body and its except clause
Classify(r, raised, result, log) ==
    IF raised THEN [r EXCEPT !.i = @ + 1, !.failed = @ + 1, !.log = log]
    ELSE Tally(r, result, log)

\* lines 250-278: fetch the main page and extract the links; None is returned when
\* the page is not fetched or has no links
RunStart ==
    /\ run.pc \in {"idle", "returned"}
    /\ \E page \in Pages :
          /\ run' = IF page = None
                    THEN [pc |-> "returned", result |-> None, log |-> <<IndexFetch>>]
                    ELSE IF NoLinks(ExtractLinks(Val(page)))
                    THEN [pc |-> "returned", result |-> None, log |-> <<IndexFetch>>]
                    ELSE [pc |-> "loop", links |-> ExtractLinks(Val(page)), i |-> 0,
                          successful |-> 0, skipped |-> 0, failed |-> 0,
                          log |-> <<IndexFetch>>]
          /\ last' = [op |-> "process_daily_updates", page |-> page]
    /\ UNCHANGED <<seismic_event, intensities, history, trigVars, dedup, fetch, query, call>>

\* lines 280-314: one iteration of the loop over the links
RunStep ==
    /\ run.pc = "loop"
    /\ run.i < Len(run.links)
    /\ \E fault \in Faults :
       \E out \in {scrape_and_update_single_eq(DB(seismic_event, intensities),
                                               run.links[run.i + 1], fault)} :
          /\ fault # "none" => out.upsert # None /\ Reaches(fault, Val(out.upsert).calls)
          /\ seismic_event' = out.db.seismic_event
          /\ intensities' = out.db.intensities
          /\ \E log \in {RateLimit(run.log \o <<<<"fetch", run.i + 1>>>>
                                      \o (IF out.upsert # None
                                          THEN <<<<"upsert", run.i + 1>>>> ELSE <<>>),
                                   run.i + 1)} :
              run' = Classify(run, out.raised, out.result, log)
          /\ last' = [op |-> "scrape_and_update_single_eq", at |-> run.i + 1,
                      result |-> out.result,
                      upsert_called |-> out.upsert # None,
                      store_failure |-> StoreFailure(out.upsert, fault)]
    /\ UNCHANGED <<history, trigVars, dedup, fetch, query, call>>

\* lines 316-336: the loop is over, the statistics are returned
RunReturn ==
    /\ run.pc = "loop"
    /\ run.i = Len(run.links)
    /\ run' = [pc |-> "returned",
               result |-> Some([total |-> Len(run.links), successful |-> run.successful,
                                skipped |-> run.skipped, failed |-> run.failed])]
    /\ last' = [op |-> "return"]
    /\ UNCHANGED <<seismic_event, intensities, history, trigVars, dedup, fetch, query, call>>

NextRun == RunStart \/ RunStep \/ RunReturn

SpecRun == Init /\ [][NextRun]_vars

\* C9: an iteration of the run whose upsert meets a store failure leaves the store as
\* it was before the iteration, so that everything committed earlier stays committed,
\* counts the event as failed and as nothing else, and leaves the run in its loop,
\* past this link, with the same links.
C9_FailedUpsertIsolated ==
    [][(/\ run.pc = "loop"
        /\ run.i < Len(run.links)
        /\ last'.op = "scrape_and_update_single_eq"
        /\ last'.at = run.i + 1
        /\ last'.store_failure)
       => /\ After = Before
          /\ run'.pc = "loop"
          /\ run'.links = run.links
          /\ run'.i = run.i + 1
          /\ run'.failed = run.failed + 1
          /\ run'.successful = run.successful
          /\ run'.skipped = run.skipped]_vars

\* C9 witness: the second link of a run of three met a store failure after the first
\* one was committed; the first event is still stored and the third link is next
C9_Witness ==
    /\ run.pc = "loop"
    /\ Len(run.links) = 3
    /\ run.i = 2
    /\ run.successful = 1
    /\ run.failed = 1
    /\ last.op = "scrape_and_update_single_eq"
    /\ last.store_failure
    /\ Len(seismic_event) = 1

----------------------------------------------------------------------------
(* admin_trigger and its background thread: specification SpecTrigger *)

MaxRequests == 2

Results == {"None", "statistics", "exception"}

\* a request to /admin/trigger arrives, with or without the admin token
Receive ==
    /\ Len(reqs) < MaxRequests
    /\ \E token \in BOOLEAN :
          reqs' = Append(reqs, [pc |-> "received", token |-> token, response |-> 0])
    /\ UNCHANGED <<storeVars, run, dedup, scraper_status, threads, fetch, query, call>>

\* lines 218-223: the token and the running flag are tested
AdminTriggerCheck(r) ==
    /\ reqs[r].pc = "received"
    /\ reqs' = [reqs EXCEPT ![r] =
                  IF ~reqs[r].token THEN [@ EXCEPT !.pc = "responded", !.response = 403]
                  ELSE IF scraper_status.running
                  THEN [@ EXCEPT !.pc = "responded", !.response = 400]
                  ELSE [@ EXCEPT !.pc = "start"]]
    /\ UNCHANGED <<storeVars, run, dedup, scraper_status, threads, fetch, query, call>>

\* lines 243-246: the thread is started and the request answered
AdminTriggerStart(r) ==
    /\ reqs[r].pc = "start"
    /\ threads' = Append(threads, [pc |-> "started", of |-> r])
    /\ reqs' = [reqs EXCEPT ![r] = [@ EXCEPT !.pc = "responded", !.response = 200]]
    /\ UNCHANGED <<storeVars, run, dedup, scraper_status, fetch, query, call>>

\* lines 228-230: run_scraper sets the flag
RunScraperBegin(t) ==
    /\ threads[t].pc = "started"
    /\ scraper_status' = [scraper_status EXCEPT !.running = TRUE,
                                                !.last_run = Some("now"),
                                                !.current_progress = Some("Starting scraper...")]
    /\ threads' = [threads EXCEPT ![t].pc = "process_daily_updates"]
    /\ UNCHANGED <<storeVars, run, dedup, reqs, fetch, query, call>>

\* lines 232-239: what the try and its except clause write into the status: the
\* value returned, which is None for a run that aborted, or {"error": ...}
StatusAfter(status, result) ==
    CASE result = "statistics" ->
            [status EXCEPT !.last_result = Some("statistics"),
                           !.current_progress = Some("Completed successfully")]
      [] result = "None" ->
            [status EXCEPT !.last_result = None,
                           !.current_progress = Some("Completed successfully")]
      [] result = "exception" ->
            [status EXCEPT !.last_result = Some("error"), !.current_progress = Some("Failed")]

\* lines 232-239: process_daily_updates returns or raises
RunScraperRun(t) ==
    /\ threads[t].pc = "process_daily_updates"
    /\ \E result \in Results :
          /\ threads' = [threads EXCEPT ![t] = [pc |-> "finally", of |-> @.of,
                                                 result |-> result]]
          /\ scraper_status' = StatusAfter(scraper_status, result)
    /\ UNCHANGED <<storeVars, run, dedup, reqs, fetch, query, call>>

\* the finally clause without its assignment
KeepRunning(status) == status

\* line 241: scraper_status["running"] = False
ClearRunning(status) == [status EXCEPT !.running = FALSE]

\* lines 240-241: the flag is reset
RunScraperFinally(t) ==
    /\ threads[t].pc = "finally"
    /\ scraper_status' = ClearRunning(scraper_status)
    /\ threads' = [threads EXCEPT ![t].pc = "done"]
    /\ UNCHANGED <<storeVars, run, dedup, reqs, fetch, query, call>>

NextTrigger ==
    \/ Receive
    \/ \E r \in DOMAIN reqs : AdminTriggerCheck(r)
    \/ \E r \in DOMAIN reqs : AdminTriggerStart(r)
    \/ \E t \in DOMAIN threads : RunScraperBegin(t)
    \/ \E t \in DOMAIN threads : RunScraperRun(t)
    \/ \E t \in DOMAIN threads : RunScraperFinally(t)

SpecTrigger == Init /\ [][NextTrigger]_vars

\* the threads that are executing process_daily_updates
Executing == {t \in DOMAIN threads : threads[t].pc = "process_daily_updates"}

\* C6: under every interleaving of the trigger requests and the run threads, at most
\* one run of process_daily_updates is executing at any time.
C6_AtMostOneRun ==
    Cardinality(Executing) <= 1


----------------------------------------------------------------------------
(* The statistics of bulk_load_from_json *)

\* C11: a bulk load that has records ready for insert returns statistics, and in them
\* every such record is counted once, as a successful or as a failed insert:
\* successful inserts + failed inserts = processed successfully = records ready.
C11_EveryRecordCounted ==
    (last.op = "bulk_load_from_json" /\ last.ready >= 1)
    => /\ last.stats # None
       /\ Val(last.stats).processed_successfully = last.ready
       /\ Val(last.stats).succesful_inserts + Val(last.stats).failed_inserts
             = Val(last.stats).processed_successfully


----------------------------------------------------------------------------
(* fetch_page_with_retry (main.py) and fetch_page (scraper): specification SpecFetch *)

max_retries == 3
base_delay == 1

Fetchers == {"fetch_page_with_retry", "fetch_page"}

\* what requests.get followed by raise_for_status does in one attempt: it passes, or
\* raises one of the exceptions of requests (HTTPError is what raise_for_status raises)
Attempts ==
    {"response", "ConnectionError", "ConnectTimeout", "ReadTimeout", "HTTPError",
     "TooManyRedirects"}

\* the first except clause: (ConnectionError, Timeout); ConnectTimeout is both,
\* ReadTimeout is a Timeout
Retriable(e) == e \in {"ConnectionError", "ConnectTimeout", "ReadTimeout"}

\* the delay of the backoff with every attempt the same
ConstantDelay(attempt) == base_delay

\* delay = base_delay * (2**attempt)
Delay(attempt) == base_delay * (2 ^ attempt)

\* the function is called: the loop starts with attempt 0
FetchCall ==
    /\ fetch.pc \in {"idle", "returned"}
    /\ \E by \in Fetchers :
          fetch' = [pc |-> "attempt", by |-> by, attempt |-> 0, tried |-> <<>>,
                    slept |-> <<>>]
    /\ UNCHANGED <<storeVars, run, trigVars, dedup, query, call>>

\* one iteration of the loop up to its return or its sleep
FetchAttempt ==
    /\ fetch.pc = "attempt"
    /\ fetch.attempt < max_retries
    /\ \E e \in Attempts :
          LET tried == Append(fetch.tried, e)
          IN fetch' =
                IF e = "response"
                THEN [fetch EXCEPT !.pc = "returned", !.tried = tried] @@ [result |-> "response"]
                ELSE IF Retriable(e)
                THEN IF fetch.attempt < max_retries - 1
                     THEN [fetch EXCEPT !.pc = "sleep", !.tried = tried]
                             @@ [delay |-> Delay(fetch.attempt)]
                     ELSE [fetch EXCEPT !.pc = "returned", !.tried = tried]
                             @@ [result |-> "None"]
                ELSE [fetch EXCEPT !.pc = "returned", !.tried = tried] @@ [result |-> "None"]
    /\ UNCHANGED <<storeVars, run, trigVars, dedup, query, call>>

\* time.sleep(delay), then the next iteration
FetchSleep ==
    /\ fetch.pc = "sleep"
    /\ fetch' = [pc |-> "attempt", by |-> fetch.by, attempt |-> fetch.attempt + 1,
                 tried |-> fetch.tried, slept |-> Append(fetch.slept, fetch.delay)]
    /\ UNCHANGED <<storeVars, run, trigVars, dedup, query, call>>

NextFetch == FetchCall \/ FetchAttempt \/ FetchSleep

SpecFetch == Init /\ [][NextFetch]_vars

\* the delays 1, 2, 4, ... after the first n failed attempts
Doubling(n) == [k \in 1..n |-> 2 ^ (k - 1)]

\* C12: a fetch makes at most 3 attempts; every attempt but the last one failed with a
\* connection or timeout error; the delay slept before attempt k+1 is 2^(k-1), so 1
\* and then 2, and none is slept after the last attempt; a fetch that has returned
\* returns the response of its last attempt if that one passed and None otherwise.
C12_RetryBackoff ==
    fetch.pc # "idle" =>
       /\ Len(fetch.tried) <= 3
       /\ \A k \in 1..(Len(fetch.tried) - 1) : Retriable(fetch.tried[k])
       /\ fetch.pc = "attempt" => fetch.slept = Doubling(Len(fetch.tried))
       /\ fetch.pc = "sleep" => /\ fetch.slept = Doubling(Len(fetch.tried) - 1)
                                /\ fetch.delay = 2 ^ (Len(fetch.tried) - 1)
       /\ fetch.pc = "returned" =>
             /\ fetch.slept = Doubling(Len(fetch.tried) - 1)
             /\ fetch.result = IF fetch.tried[Len(fetch.tried)] = "response"
                               THEN "response" ELSE "None"
             /\ Retriable(fetch.tried[Len(fetch.tried)]) => Len(fetch.tried) = 3

\* C12 witness: two connection or timeout failures were followed by the delays 1 and
\* 2, and the third attempt ended the fetch with another error
C12_Witness ==
    /\ fetch.pc = "returned"
    /\ Len(fetch.tried) = 3
    /\ fetch.tried[3] = "HTTPError"
    /\ fetch.slept = <<1, 2>>
    /\ fetch.result = "None"

\* C12 as stated: a delay of 2^(k-1) is slept after the k-th failed attempt, for every
\* connection or timeout failure of the fetch: 1, 2, 4.
C12_DelayAfterEveryFailure ==
    fetch.pc = "returned" =>
       \A k \in DOMAIN fetch.tried :
          Retriable(fetch.tried[k]) => k \in DOMAIN fetch.slept /\ fetch.slept[k] = 2 ^ (k - 1)


----------------------------------------------------------------------------
(* Claims about a run of process_daily_updates *)

SpecRunFair == SpecRun /\ WF_vars(RunStep) /\ WF_vars(RunReturn)

\* the main page gives the run nothing to process
NothingToProcess(page) ==
    page = None \/ (Val(page).primary = <<>> /\ Val(page).fallback = <<>>)

\* C13: a run whose main page is not fetched, or in whose main page neither strategy
\* finds a link, returns None, has requested the main page and nothing else, and
\* leaves the store as it was.
C13_AbortLeavesNothing ==
    [][(/\ run.pc \in {"idle", "returned"}
        /\ last'.op = "process_daily_updates"
        /\ NothingToProcess(last'.page))
       => /\ run'.pc = "returned"
          /\ run'.result = None
          /\ run'.log = <<IndexFetch>>
          /\ After = Before]_vars

\* C13 witness: a run found no link in a main page it had fetched and returned None
\* while an event of an earlier run is stored
C13_Witness ==
    /\ run.pc = "returned"
    /\ run.result = None
    /\ last.op = "process_daily_updates"
    /\ last.page # None
    /\ Len(seismic_event) >= 1

\* the requests for event pages in a log, in order
RECURSIVE EventFetches(_)
EventFetches(log) ==
    IF log = <<>> THEN <<>>
    ELSE IF Head(log)[1] = "fetch" /\ Head(log)[2] >= 1
    THEN <<Head(log)[2]>> \o EventFetches(Tail(log))
    ELSE EventFetches(Tail(log))

\* C14: in the loop of a run the links processed so far are the first i links, each
\* once and in the order of the list, and each is counted once; whatever a link's
\* outcome the next step leaves the run in its loop, one link further, with the same
\* list; after the last link the run returns statistics whose total is the number of
\* links; and a run in its loop eventually returns.
C14_EveryLinkOnceInOrder ==
    /\ [](run.pc = "loop" =>
             /\ run.links # <<>>
             /\ run.i <= Len(run.links)
             /\ EventFetches(run.log) = [k \in 1..run.i |-> k]
             /\ run.successful + run.skipped + run.failed = run.i)
    /\ [][run.pc = "loop" =>
             \/ /\ run.i < Len(run.links)
                /\ run'.pc = "loop"
                /\ run'.links = run.links
                /\ run'.i = run.i + 1
             \/ /\ run.i = Len(run.links)
                /\ run'.pc = "returned"
                /\ run'.result # None
                /\ Val(run'.result).total = Len(run.links)
                /\ Val(run'.result).successful + Val(run'.result).skipped
                      + Val(run'.result).failed = Len(run.links)]_vars
    /\ (run.pc = "loop" ~> run.pc = "returned")

\* C14 witness: a run of three links has processed all of them, the first one
\* raised, the second one was rejected or failed, the third one was stored
C14_Witness ==
    /\ run.pc = "loop"
    /\ Len(run.links) = 3
    /\ run.i = 3
    /\ run.links[1] = ScrapeRaises
    /\ run.failed = 2
    /\ run.successful = 1
    /\ last.op = "scrape_and_update_single_eq"
    /\ last.result = Inserted

\* C15: a record extracted from an event page is passed to process_live_update if
\* and only if it has a sequence number and a date; a record not passed leaves the
\* store as it was and is counted as failed.
C15_UpsertIffBothFields ==
    [][(/\ run.pc = "loop"
        /\ run.i < Len(run.links)
        /\ last'.op = "scrape_and_update_single_eq"
        /\ last'.at = run.i + 1
        /\ run.links[run.i + 1].outcome = "returns"
        /\ run.links[run.i + 1].value # None)
       => LET scrape_eq == Val(run.links[run.i + 1].value)
          IN /\ last'.upsert_called <=> (scrape_eq.eq_no # None /\ scrape_eq.datetime # None)
             /\ ~last'.upsert_called => After = Before /\ run'.failed = run.failed + 1]_vars

\* the events of link k in a log: its request, the upsert if there was one, its delay
Block(k, upsert) ==
    <<<<"fetch", k>>>> \o (IF upsert THEN <<<<"upsert", k>>>> ELSE <<>>) \o <<<<"sleep", k>>>>

\* a log is the request of the main page followed by the blocks of the links 1..n
RECURSIVE Sequential(_, _, _)
Sequential(log, k, n) ==
    IF k > n THEN log = <<>>
    ELSE \E upsert \in BOOLEAN :
            LET b == Block(k, upsert)
            IN /\ Len(log) >= Len(b)
               /\ SubSeq(log, 1, Len(b)) = b
               /\ Sequential(SubSeq(log, Len(b) + 1, Len(log)), k + 1, n)

\* C16: the log of a run in its loop is the request for the main page followed, for
\* each link processed, in order, by the request for its page, its upsert if any and
\* one delay: the request for link i+1 comes after the delay of link i, every link
\* processed is followed by exactly one delay whatever its outcome.
C16_OneAtATimeWithDelay ==
    run.pc = "loop" =>
       /\ Head(run.log) = IndexFetch
       /\ Sequential(Tail(run.log), 1, run.i)

\* C16 witness: a run has processed a link that raised and a link that was stored
C16_Witness ==
    /\ run.pc = "loop"
    /\ run.i = 2
    /\ run.links[1] = ScrapeRaises
    /\ run.successful = 1
    /\ run.log = <<IndexFetch>> \o Block(1, FALSE) \o Block(2, TRUE)


----------------------------------------------------------------------------
(* EarthquakeDatabase.get_earthquakes_filtered: specification SpecQuery *)

row_limit == 5000

\* dates of the year 2025; a stored datetime is the date of the event
Date(month, day) == [year |-> 2025, month |-> month, day |-> day]

DaysBefore == <<0, 31, 59, 90, 120, 151, 181, 212, 243, 273, 304, 334>>

\* the day number that date arithmetic works with
Ordinal(date) == (date.year - 2025) * 365 + DaysBefore[date.month] + date.day

\* datetime.strptime(text, "%Y-%m-%d"): None stands for the ValueError it raises
strptime(text) ==
    CASE text = "2025-01-01" -> Some(Date(1, 1))
      [] text = "2025-04-01" -> Some(Date(4, 1))
      [] text = "2025-06-30" -> Some(Date(6, 30))
      [] text = "2025-07-20" -> Some(Date(7, 20))
      [] OTHER -> None

\* "not x" of a text and of a number: None, "" and 0 are false
NoText(o) == o = None \/ Val(o) = ""
Truthy(o) == o # None /\ Val(o) # 0

UpperLetters ==
    <<"A","B","C","D","E","F","G","H","I","J","K","L","M","N","O","P","Q","R","S","T","U","V","W",
      "X","Y","Z">>
LowerLetters ==
    <<"a","b","c","d","e","f","g","h","i","j","k","l","m","n","o","p","q","r","s","t","u","v","w",
      "x","y","z">>

ToLower(c) ==
    IF \E i \in DOMAIN UpperLetters : UpperLetters[i] = c
    THEN LowerLetters[CHOOSE i \in DOMAIN UpperLetters : UpperLetters[i] = c]
    ELSE c

Lower(text) == [i \in DOMAIN text |-> ToLower(text[i])]

\* column.ilike("%pattern%"): the pattern occurs in the column, letter case ignored;
\* false on NULL
ILike(column, pattern) ==
    /\ column # None
    /\ \E i \in 1..(Len(Val(column)) - Len(pattern) + 1) :
          SubSeq(Lower(Val(column)), i, i + Len(pattern) - 1) = Lower(pattern)

Tectonic == <<"T","E","C","T","O","N","I","C">>
Volcanic == <<"V","O","L","C","A","N","I","C">>

\* map_region_name followed by REGION_PROVINCE_MAPPING.get(..., [])
Provinces(location) ==
    CASE location = "Region I" -> {"Ilocos Norte", "Ilocos Sur", "La Union", "Pangasinan"}
      [] location = "Region IV-A" -> {"Batangas", "Cavite", "Laguna", "Quezon", "Rizal"}
      [] OTHER -> {}

\* the rows of seismic_event, with the columns the query reads; magnitudes in tenths
Row(eq_id, datetime, magnitude_value, province, origin, latitude, longitude) ==
    [eq_id |-> eq_id, datetime |-> datetime, magnitude_value |-> magnitude_value,
     province |-> province, origin |-> origin, latitude |-> latitude, longitude |-> longitude]

QueryRows ==
    <<Row(1, Some(Date(8, 3)), Some(15), "Ilocos Norte", Some(Tectonic), 18, 120),
      Row(2, Some(Date(8, 10)), Some(40), "Batangas", Some(Volcanic), 13, 121),
      Row(3, Some(Date(3, 1)), Some(18), "Ilocos Norte", Some(Tectonic), 18, 120),
      Row(4, Some(Date(7, 5)), None, "Batangas", Some(Tectonic), 13, 121),
      Row(5, None, Some(30), "Batangas", None, 14, 121)>>

IsStored(S, row) == row.eq_id \in S

QueryStores ==
    {SelectSeq(QueryRows, LAMBDA row : IsStored(S, row)) : S \in SUBSET (1..Len(QueryRows))}

\* datetime.now(): the current year and month
Nows == {Date(8, 15), Date(7, 28)}

Boxes ==
    {[lat_min |-> Some(5), lat_max |-> Some(15), lon_min |-> Some(119), lon_max |-> Some(122)],
     [lat_min |-> Some(0), lat_max |-> Some(15), lon_min |-> Some(119), lon_max |-> Some(122)],
     [lat_min |-> None, lat_max |-> None, lon_min |-> None, lon_max |-> None]}

\* the keyword arguments of a call
Requests ==
    {[date_from |-> date_from, date_to |-> date_to, magnitude_min |-> magnitude_min,
      magnitude_max |-> magnitude_max, location |-> location, origin |-> origin,
      lat_min |-> box.lat_min, lat_max |-> box.lat_max,
      lon_min |-> box.lon_min, lon_max |-> box.lon_max] :
        date_from \in {None, Some("2025-01-01"), Some("01/01/2025")},
        date_to \in {None, Some("2025-04-01"), Some("2025-06-30"), Some("2025-07-20")},
        magnitude_min \in {None, Some(0), Some(15), Some(20), Some(25)},
        magnitude_max \in {None, Some(30)},
        location \in {None, Some("Region I")},
        origin \in {None, Some(<<"t","e","c","t">>)},
        box \in Boxes}

\* the default scope with the month left out
InCurrentYear(row, now) ==
    /\ row.datetime # None
    /\ Val(row.datetime).year = now.year

\* extract("year") == current_year and extract("month") == current_month
InCurrentMonth(row, now) ==
    /\ row.datetime # None
    /\ Val(row.datetime).year = now.year
    /\ Val(row.datetime).month = now.month

\* lines 944-962: the date filters of the request; raises when a bound does not parse
DateFilterRaises(req) ==
    /\ ~(NoText(req.date_from) /\ NoText(req.date_to))
    /\ \/ ~NoText(req.date_from) /\ strptime(Val(req.date_from)) = None
       \/ ~NoText(req.date_to) /\ strptime(Val(req.date_to)) = None

DateFilter(row, req, now) ==
    IF NoText(req.date_from) /\ NoText(req.date_to)
    THEN InCurrentMonth(row, now)
    ELSE /\ ~NoText(req.date_from) =>
               /\ row.datetime # None
               /\ Ordinal(Val(row.datetime)) >= Ordinal(Val(strptime(Val(req.date_from))))
         /\ ~NoText(req.date_to) =>
               /\ row.datetime # None
               /\ Ordinal(Val(row.datetime)) <= Ordinal(Val(strptime(Val(req.date_to))))

\* lines 965-972: the performance override applies
Override(req) ==
    /\ Truthy(req.magnitude_min) /\ Val(req.magnitude_min) <= 20
    /\ ~NoText(req.date_from) /\ ~NoText(req.date_to)
    /\ Ordinal(Val(strptime(Val(req.date_to))))
          - Ordinal(Val(strptime(Val(req.date_from)))) > 180

\* the filters applied in both branches: magnitude_max, location, origin, bounds
MagnitudeMaxFilter(row, req) ==
    Truthy(req.magnitude_max) =>
       row.magnitude_value # None /\ Val(row.magnitude_value) <= Val(req.magnitude_max)

LocationFilter(row, req) ==
    (~NoText(req.location) /\ Provinces(Val(req.location)) # {}) =>
       row.province \in Provinces(Val(req.location))

OriginFilter(row, req) ==
    req.origin # None /\ Val(req.origin) # <<>> => ILike(row.origin, Val(req.origin))

\* the bounds applied whenever all four are given
BoundsGiven(req) ==
    req.lat_min # None /\ req.lat_max # None /\ req.lon_min # None /\ req.lon_max # None

BoundsFilterGiven(row, req) ==
    BoundsGiven(req) =>
       /\ row.latitude >= Val(req.lat_min) /\ row.latitude <= Val(req.lat_max)
       /\ row.longitude >= Val(req.lon_min) /\ row.longitude <= Val(req.lon_max)

\* "if lat_min and lat_max and lon_min and lon_max"
BoundsFilter(row, req) ==
    (Truthy(req.lat_min) /\ Truthy(req.lat_max) /\ Truthy(req.lon_min) /\ Truthy(req.lon_max)) =>
       /\ row.latitude >= Val(req.lat_min) /\ row.latitude <= Val(req.lat_max)
       /\ row.longitude >= Val(req.lon_min) /\ row.longitude <= Val(req.lon_max)

OtherFilters(row, req) ==
    /\ MagnitudeMaxFilter(row, req)
    /\ LocationFilter(row, req)
    /\ OriginFilter(row, req)
    /\ BoundsFilter(row, req)

\* lines 1016-1018: magnitude_min in the branch without override
MagnitudeMinFilter(row, req) ==
    Truthy(req.magnitude_min) =>
       row.magnitude_value # None /\ Val(row.magnitude_value) >= Val(req.magnitude_min)

\* the WHERE clause of the query that is run
Where(row, req, now) ==
    IF Override(req)
    THEN InCurrentMonth(row, now) /\ OtherFilters(row, req)
    ELSE DateFilter(row, req, now) /\ MagnitudeMinFilter(row, req) /\ OtherFilters(row, req)

\* order_by(SeismicEvent.datetime.desc()): the rows of a set, the latest first
RECURSIVE OrderByDatetimeDesc(_)
OrderByDatetimeDesc(rows) ==
    IF rows = {} THEN <<>>
    ELSE LET first == CHOOSE r \in rows :
                         \A q \in rows : Ordinal(Val(r.datetime)) >= Ordinal(Val(q.datetime))
         IN <<first>> \o OrderByDatetimeDesc(rows \ {first})

\* .limit(5_000)
Limit(rows) == SubSeq(rows, 1, IF Len(rows) < row_limit THEN Len(rows) ELSE row_limit)

OverrideReason ==
    "Performance protection: magnitude <=2.0 + date range >6 months -> limited to current month"

QueryFaults == {"none", "get_session", "query"}

\* the value returned and the calls made on the session. The except clause of line
\* 1165 returns [] and closes nothing.
get_earthquakes_filtered(events, req, now, fault) ==
    IF fault = "get_session"
    THEN [returns |-> "[]", calls |-> <<>>]
    ELSE IF DateFilterRaises(req)
    THEN [returns |-> "[]", calls |-> <<"get_session">>]
    ELSE IF fault = "query"
    THEN [returns |-> "[]", calls |-> <<"get_session", "query">>]
    ELSE LET earthquakes ==
                Limit(OrderByDatetimeDesc({events[i] : i \in {j \in DOMAIN events :
                                                               Where(events[j], req, now)}}))
         IN [returns |-> "envelope",
             earthquakes |-> earthquakes,
             total_count |-> Len(earthquakes),
             override_applied |-> Override(req),
             override_reason |-> IF Override(req) THEN Some(OverrideReason) ELSE None,
             calls |-> <<"get_session", "query", "close">>]

\* the store the queries run on
InitQueryStore ==
    /\ seismic_event \in QueryStores
    /\ intensities = <<>>
    /\ last = [op |-> "none"]
    /\ history = [version |-> [k \in {} |-> None], submitted_max |-> [k \in {} |-> None],
                  faulted |-> FALSE]
    /\ InitRun /\ InitTrigger /\ InitDedup /\ InitFetch /\ InitQuery /\ InitCall

\* one call of get_earthquakes_filtered; the store faults are met by the requests
\* that filter on dates and magnitude_min only
GetEarthquakesFiltered ==
    /\ query.pc = "idle"
    /\ \E req \in Requests, now \in Nows, fault \in QueryFaults :
          /\ fault # "none" =>
                /\ req.magnitude_max = None /\ req.location = None /\ req.origin = None
                /\ ~BoundsGiven(req)
          /\ query' = [pc |-> "returned", req |-> req, now |-> now, fault |-> fault,
                       out |-> get_earthquakes_filtered(seismic_event, req, now, fault)]
    /\ UNCHANGED <<storeVars, run, trigVars, dedup, fetch, call>>

NextQuery == GetEarthquakesFiltered

SpecQuery == InitQueryStore /\ [][NextQuery]_vars

\* C17: a call that has opened a session has closed it when it returns.
C17_SessionClosed ==
    query.pc = "returned" =>
       ("get_session" \in Range(query.out.calls) => "close" \in Range(query.out.calls))

\* the call has returned the envelope with the events found
Answered == query.pc = "returned" /\ query.out.returns = "envelope"

Returned == Range(query.out.earthquakes)

Stored == Range(seismic_event)

\* the event occurred in the year and month of the call
InMonthOfCall(row) ==
    /\ row.datetime # None
    /\ Val(row.datetime).year = query.now.year
    /\ Val(row.datetime).month = query.now.month

\* the event occurred within the date bounds of the request, the last day included
InRequestedRange(row) ==
    /\ query.req.date_from # None =>
          /\ row.datetime # None
          /\ Ordinal(Val(row.datetime)) >= Ordinal(Val(strptime(Val(query.req.date_from))))
    /\ query.req.date_to # None =>
          /\ row.datetime # None
          /\ Ordinal(Val(row.datetime)) <= Ordinal(Val(strptime(Val(query.req.date_to))))

\* the number of days the requested range spans
SpanDays ==
    Ordinal(Val(strptime(Val(query.req.date_to))))
       - Ordinal(Val(strptime(Val(query.req.date_from))))

\* the event satisfies the magnitude-max, region, origin and bounding-box filters
\* of the request, each one enforced if it is given
SatisfiesRemaining(row) ==
    /\ query.req.magnitude_max # None =>
          row.magnitude_value # None /\ Val(row.magnitude_value) <= Val(query.req.magnitude_max)
    /\ query.req.location # None => row.province \in Provinces(Val(query.req.location))
    /\ query.req.origin # None => ILike(row.origin, Val(query.req.origin))
    /\ BoundsFilterGiven(row, query.req)

SatisfiesMagnitudeMin(row) ==
    query.req.magnitude_min # None =>
       row.magnitude_value # None /\ Val(row.magnitude_value) >= Val(query.req.magnitude_min)

\* C18: the override is applied if and only if a magnitude-min of at most 2.0 is given
\* together with both date bounds spanning more than 180 days; when applied, every
\* returned event occurred in the current month; when not, every returned event
\* occurred in the requested range.
C18_OverrideIff ==
    Answered =>
       LET expected == /\ query.req.magnitude_min # None
                       /\ Val(query.req.magnitude_min) <= 20
                       /\ query.req.date_from # None /\ query.req.date_to # None
                       /\ SpanDays > 180
       IN /\ query.out.override_applied <=> expected
          /\ query.out.override_applied => \A row \in Returned : InMonthOfCall(row)
          /\ ~query.out.override_applied => \A row \in Returned : InRequestedRange(row)

\* C19: when the override is applied, the events returned are exactly the stored
\* events of the current month that satisfy the magnitude-max, region, origin and
\* bounding-box filters of the request, and the envelope says so with the fixed reason.
C19_OverrideKeepsOtherFilters ==
    (Answered /\ query.out.override_applied) =>
       /\ Len(query.out.earthquakes) < row_limit =>
             Returned = {row \in Stored : InMonthOfCall(row) /\ SatisfiesRemaining(row)}
       /\ query.out.override_reason = Some(OverrideReason)

\* C20: a call without date bounds returns only events of the current month, and
\* returns every stored event of the current month that satisfies the other filters
\* of the request, unless the row cap is reached.
C20_DefaultScopeCurrentMonth ==
    (Answered /\ query.req.date_from = None /\ query.req.date_to = None) =>
       /\ \A row \in Returned : row \in Stored /\ InMonthOfCall(row)
       /\ Len(query.out.earthquakes) < row_limit =>
             \A row \in Stored :
                (InMonthOfCall(row) /\ SatisfiesMagnitudeMin(row) /\ SatisfiesRemaining(row))
                => row \in Returned

\* C20 witness: a call without date bounds and with a region filter returned an event
\* of the current month while an event of the current month outside the region and
\* an event of another month are stored
C20_Witness ==
    /\ Answered
    /\ query.req.date_from = None /\ query.req.date_to = None
    /\ query.req.location # None
    /\ Returned # {}
    /\ \E row \in Stored : InMonthOfCall(row) /\ row \notin Returned
    /\ \E row \in Stored : row.datetime # None /\ ~InMonthOfCall(row)

\* the event lies in the bounding box of the request
InBox(row) ==
    /\ row.latitude >= Val(query.req.lat_min) /\ row.latitude <= Val(query.req.lat_max)
    /\ row.longitude >= Val(query.req.lon_min) /\ row.longitude <= Val(query.req.lon_max)

\* the event passes the filters of the query other than the bounding box
PassesWithoutBounds(row) ==
    IF Override(query.req)
    THEN /\ InCurrentMonth(row, query.now)
         /\ MagnitudeMaxFilter(row, query.req)
         /\ LocationFilter(row, query.req)
         /\ OriginFilter(row, query.req)
    ELSE /\ DateFilter(row, query.req, query.now)
         /\ MagnitudeMinFilter(row, query.req)
         /\ MagnitudeMaxFilter(row, query.req)
         /\ LocationFilter(row, query.req)
         /\ OriginFilter(row, query.req)

\* C21: when the four bounds are given, whatever their values, every returned event
\* lies in the box; when a bound is missing, the coordinates restrict nothing: every
\* stored event that passes the other filters is returned.
C21_BoundsIffAllFour ==
    Answered =>
       /\ BoundsGiven(query.req) => \A row \in Returned : InBox(row)
       /\ (~BoundsGiven(query.req) /\ Len(query.out.earthquakes) < row_limit) =>
             Returned = {row \in Stored : PassesWithoutBounds(row)}


----------------------------------------------------------------------------
(* EarthquakeDatabase.generate_business_key on two records: specification SpecKey *)

Prefix0147 == <<"2","0","2","5","_","0","8","0","3","_","0","1","4","7">>
Prefix0150 == <<"2","0","2","5","_","0","8","0","3","_","0","1","5","0">>

\* what follows the date and time in the name of a bulletin
Suffixes == {<<>>, <<"_","B","1">>, <<"_","B","2">>, <<"_","B","3","F">>}

KeyFilenames == {prefix \o suffix : prefix \in {Prefix0147, Prefix0150}, suffix \in Suffixes}
                   \cup {FnMap}

\* province names: two spellings of one name, a name with a character that is
\* dropped, another name, and no province
KeyProvinces ==
    {Some(ProvAB), Some(<<"A","b","_","C","d">>), Some(<<"A","b","-","C","d">>),
     Some(<<"E","f">>), None}

KeyRecords ==
    {[filename |-> Some(filename), province |-> province, eq_no |-> eq_no] :
        filename \in KeyFilenames, province \in KeyProvinces,
        eq_no \in {None} \cup {Some(n) : n \in 1..MaxSeq}}

InitKey ==
    /\ InitStore /\ InitRun /\ InitTrigger /\ InitDedup /\ InitFetch /\ InitQuery /\ InitCall

\* the key of two records
GenerateBusinessKeys ==
    /\ call.fn = "none"
    /\ \E a, b \in KeyRecords :
          call' = [fn |-> "generate_business_key", a |-> a, b |-> b,
                   key_a |-> generate_business_key(a), key_b |-> generate_business_key(b)]
    /\ UNCHANGED <<storeVars, run, trigVars, dedup, fetch, query>>

NextKey == GenerateBusinessKeys

SpecKey == InitKey /\ [][NextKey]_vars

\* the first 14 characters of a filename are a date and a time, YYYY_MMDD_HHMM
HasDateTimePrefix(filename) ==
    /\ Len(filename) >= 14
    /\ \A i \in {1, 2, 3, 4, 6, 7, 8, 9, 11, 12, 13, 14} : filename[i] \in Digits
    /\ filename[5] = "_" /\ filename[10] = "_"

DateTimePrefix(filename) == SubSeq(filename, 1, 14)

\* the province name with spaces as underscores and without characters other than
\* letters, digits and underscores
Normalized(province) ==
    LET kept == {i \in DOMAIN province : province[i] \in Letters \cup Digits \cup {" ", "_"}}
        position(k) == CHOOSE i \in kept : Cardinality({j \in kept : j <= i}) = k
    IN [k \in 1..Cardinality(kept) |->
           IF province[position(k)] = " " THEN "_" ELSE province[position(k)]]

\* both records have a province and a filename that starts with a date and a time
Keyed(r) == r.province # None /\ HasDateTimePrefix(Val(r.filename))

\* C22: two records whose filenames start with the same date and time and whose
\* province names normalize to the same name have the same key, which is that date
\* and time followed by the normalized name, whatever their sequence numbers and
\* the suffixes of their filenames.
C22_KeyOfPrefixAndProvince ==
    (call.fn = "generate_business_key" /\ Keyed(call.a) /\ Keyed(call.b)) =>
       /\ call.key_a = Some(DateTimePrefix(Val(call.a.filename)) \o <<"_">>
                              \o Normalized(Val(call.a.province)))
       /\ (/\ DateTimePrefix(Val(call.a.filename)) = DateTimePrefix(Val(call.b.filename))
           /\ Normalized(Val(call.a.province)) = Normalized(Val(call.b.province)))
          => call.key_a = call.key_b

\* C22 witness: two revisions of one bulletin, with different suffixes, sequence
\* numbers and spellings of the province, have the same key
C22_Witness ==
    /\ call.fn = "generate_business_key"
    /\ Keyed(call.a) /\ Keyed(call.b)
    /\ call.a.filename = Some(Prefix0147 \o <<"_","B","1">>)
    /\ call.b.filename = Some(Prefix0147 \o <<"_","B","3","F">>)
    /\ call.a.eq_no # call.b.eq_no
    /\ call.a.province # call.b.province
    /\ call.key_a = call.key_b
    /\ call.key_a # None


----------------------------------------------------------------------------
(* ModernEarthquakeScraper.parse_region_location *)

\* A region text is a tuple of symbols: "(", ")", " " (white space), "of", and
\* words, a word being a run of characters without parenthesis, white space or
\* "of" at its end.

\* str.strip()
RECURSIVE LStrip(_)
LStrip(text) ==
    IF text # <<>> /\ Head(text) = " " THEN LStrip(Tail(text)) ELSE text

RECURSIVE RStrip(_)
RStrip(text) ==
    IF text # <<>> /\ text[Len(text)] = " " THEN RStrip(SubSeq(text, 1, Len(text) - 1))
    ELSE text

Strip(text) == RStrip(LStrip(text))

\* re.findall(r"\(([^)]+)\)", region_str) from position i on: at an opening
\* parenthesis, the text up to the next closing one if that text is not empty
RECURSIVE FindParentheses(_, _)
FindParentheses(text, i) ==
    IF i > Len(text) THEN <<>>
    ELSE IF text[i] # "(" THEN FindParentheses(text, i + 1)
    ELSE LET closes == {j \in (i + 1)..Len(text) : text[j] = ")"}
         IN IF closes = {} THEN <<>>
            ELSE LET j == CHOOSE c \in closes : \A d \in closes : c <= d
                 IN IF j = i + 1 THEN FindParentheses(text, i + 1)
                    ELSE <<SubSeq(text, i + 1, j - 1)>> \o FindParentheses(text, j + 1)

\* the match of r"of\s+([^(]+?)(?:\s*\(|$)" that starts at position i, as
\* Some(group 1), or None. After "of" and all the white space that follows it, the
\* group runs to the last symbol before the white space that precedes the next
\* opening parenthesis, or to the end; when nothing but a parenthesis or the end
\* follows the white space, the group is one white space given back by \s+, if
\* there are two.
LocationMatchAt(text, i) ==
    IF ~(text[i] = "of" /\ i + 1 <= Len(text) /\ text[i + 1] = " ") THEN None
    ELSE LET spaces == {w \in (i + 1)..Len(text) : \A k \in (i + 1)..w : text[k] = " "}
             w == CHOOSE x \in spaces : \A y \in spaces : y <= x
             g == w + 1
             opens == {q \in g..Len(text) : text[q] = "("}
         IN IF g <= Len(text) /\ text[g] # "("
            THEN IF opens = {} THEN Some(SubSeq(text, g, Len(text)))
                 ELSE LET q == CHOOSE x \in opens : \A y \in opens : x <= y
                      IN Some(RStrip(SubSeq(text, g, q - 1)))
            ELSE IF w - i >= 2 THEN Some(<<" ">>)
            ELSE None

\* re.search: the match at the leftmost position that has one
LocationSearch(text) ==
    LET starts == {i \in 1..Len(text) : LocationMatchAt(text, i) # None}
    IN IF starts = {} THEN None
       ELSE LocationMatchAt(text, CHOOSE i \in starts : \A j \in starts : i <= j)

\* the municipality taken from the first group instead of the second-to-last
MunicipalityFirstGroup(region_str) ==
    LET parentheses_matches == FindParentheses(region_str, 1)
        n == Len(parentheses_matches)
        location_match == LocationSearch(region_str)
    IN IF region_str = <<>> THEN [location |-> <<>>, municipality |-> <<>>, province |-> <<>>]
       ELSE [location |-> IF location_match # None THEN Strip(Val(location_match)) ELSE <<>>,
             municipality |-> IF n >= 2 THEN Strip(parentheses_matches[1]) ELSE <<>>,
             province |-> IF n >= 1 THEN Strip(parentheses_matches[n]) ELSE <<>>]

parse_region_location(region_str) ==
    LET parentheses_matches == FindParentheses(region_str, 1)
        n == Len(parentheses_matches)
        location_match == LocationSearch(region_str)
    IN IF region_str = <<>> THEN [location |-> <<>>, municipality |-> <<>>, province |-> <<>>]
       ELSE [location |-> IF location_match # None THEN Strip(Val(location_match)) ELSE <<>>,
             municipality |-> IF n >= 2 THEN Strip(parentheses_matches[n - 1]) ELSE <<>>,
             province |-> IF n >= 1 THEN Strip(parentheses_matches[n]) ELSE <<>>]


----------------------------------------------------------------------------
(* ModernEarthquakeScraper.extract_earthquake_details: specification SpecExtract *)

\* The parsed page (soup) gives, for each logical field, the text of the element
\* that encloses the field's marker comment, if the comment is there, and the text
\* of the cell next to the cell that matches the field's label, if there is one.
\* For the map image the marked element gives the src of its img tag, "" without one.
Fields ==
    {"eq_no", "datetime", "location", "depth", "origin", "magnitude", "filename",
     "intensities", "issued", "authors", "damage", "aftershock"}

\* the comment_text of extract_comment_block
Marker(f) ==
    CASE f = "eq_no" -> "EQInfo-Data"
      [] f = "datetime" -> "DateTime-Data"
      [] f = "location" -> "Location-Data"
      [] f = "depth" -> "Depth-Data"
      [] f = "origin" -> "Origin-Data"
      [] f = "magnitude" -> "Magnitude-Data"
      [] f = "filename" -> "Map-Data"
      [] f = "intensities" -> "Intensity-Data"
      [] f = "issued" -> "IssuedDT-Data"
      [] f = "authors" -> "PreparedBy-Data"
      [] f = "damage" -> "Damage-Data"
      [] f = "aftershock" -> "Aftershock-Data"

\* the regex_pattern of extract_label_block; the map image has none
Label(f) ==
    CASE f = "eq_no" -> Some("EARTHQUAKE\\sINFORMATION\\sNO\\.\\s:")
      [] f = "datetime" -> Some("Date/Time")
      [] f = "location" -> Some("Location")
      [] f = "depth" -> Some("^Depth\\s+of\\s+Focus")
      [] f = "origin" -> Some("Origin")
      [] f = "magnitude" -> Some("Magnitude")
      [] f = "filename" -> None
      [] f = "intensities" -> Some("Reported\\s+Intensities")
      [] f = "issued" -> Some("Issued\\s+On")
      [] f = "authors" -> Some("Prepared\\s+by")
      [] f = "damage" -> Some("Expecting\\s+Damage")
      [] f = "aftershock" -> Some("Expecting\\sAftershock")

\* extract_comment_block(soup, Marker(f)) is not None
HasMarker(soup, f) == soup[f].marker # None

\* the text a field is parsed from: the marked element's if the marker is there,
\* else what extract_label_block returns (None without label)
FieldText(soup, f) ==
    IF HasMarker(soup, f) THEN soup[f].marker
    ELSE IF Label(f) # None THEN soup[f].label
    ELSE None

\* the calls the block of a field makes
FieldCalls(soup, f) ==
    <<<<"extract_comment_block", Marker(f)>>>>
       \o (IF ~HasMarker(soup, f) /\ Label(f) # None
           THEN <<<<"extract_label_block", Val(Label(f))>>>>
           ELSE <<>>)

\* "if text:"
HasText(text) == text # None /\ Val(text) # ""

\* re.search(r"NO\.\s*:\s*(\d+)", eq_text) and int(): None without match
EqNoSearch(eq_text) ==
    CASE eq_text = "EARTHQUAKE INFORMATION NO. : 3" -> Some(3)
      [] eq_text = "NO. : 4" -> Some(4)
      [] OTHER -> None

ExtractEqNo(eq_text) ==
    [eq_no |-> IF HasText(eq_text) THEN EqNoSearch(Val(eq_text)) ELSE None]

\* text.split("-", 1) with each part stripped; None when "-" is not in the text
SplitDash(text) ==
    CASE text = "03 Aug 2025 - 01:47 AM" -> Some(<<"03 Aug 2025", "01:47 AM">>)
      [] text = "04 Aug 2025 - 02:05 AM" -> Some(<<"04 Aug 2025", "02:05 AM">>)
      [] text = "soon - later" -> Some(<<"soon", "later">>)
      [] OTHER -> None

\* parse_datetime: the datetime as [day, minute of the day] of August 2025, None
\* when no format fits
parse_datetime(date_str, time_str) ==
    CASE date_str = "03 Aug 2025" /\ time_str = "01:47 AM" -> Some(<<3, 107>>)
      [] date_str = "04 Aug 2025" /\ time_str = "02:05 AM" -> Some(<<4, 125>>)
      [] OTHER -> None

ExtractDateTime(datetime_text) ==
    IF HasText(datetime_text) /\ SplitDash(Val(datetime_text)) # None
    THEN LET parts == Val(SplitDash(Val(datetime_text)))
         IN [date_str |-> parts[1], time_str |-> parts[2],
             datetime |-> parse_datetime(parts[1], parts[2])]
    ELSE [date_str |-> "", time_str |-> "", datetime |-> None]

ExtractIssued(issued_text) ==
    IF HasText(issued_text) /\ SplitDash(Val(issued_text)) # None
    THEN LET parts == Val(SplitDash(Val(issued_text)))
         IN [issued_date_str |-> parts[1], issued_time_str |-> parts[2],
             issued_datetime |-> parse_datetime(parts[1], parts[2])]
    ELSE [issued_date_str |-> "", issued_time_str |-> "", issued_datetime |-> None]

\* the location texts: "d" stands for the degree sign
LocationPagudpud == "17.52dN, 120.45dE - 009 km N 43d W of Pagudpud (Ilocos Norte)"
LocationSanFrancisco ==
    "09.80dN, 125.40dE - 015 km N 28d W of San Francisco (Anao-aon) (Surigao Del Norte)"

\* re.findall(r"\d+\.\d+d[A-Z]", location_text)
LatLon(location_text) ==
    CASE location_text = LocationPagudpud -> <<"17.52dN", "120.45dE">>
      [] location_text = LocationSanFrancisco -> <<"09.80dN", "125.40dE">>
      [] OTHER -> <<>>

\* parse_coordinate, in hundredths of a degree
parse_coordinate(coord_str) ==
    CASE coord_str = "17.52dN" -> Some(1752)
      [] coord_str = "120.45dE" -> Some(12045)
      [] coord_str = "09.80dN" -> Some(980)
      [] coord_str = "125.40dE" -> Some(12540)
      [] OTHER -> None

RegionPagudpud ==
    <<"009", " ", "km", " ", "N", " ", "43d", " ", "W", " ", "of", " ", "Pagudpud", " ",
      "(", "Ilocos", " ", "Norte", ")">>
RegionSanFrancisco ==
    <<"015", " ", "km", " ", "N", " ", "28d", " ", "W", " ", "of", " ", "San", " ", "Francisco",
      " ", "(", "Anao-aon", ")", " ", "(", "Surigao", " ", "Del", " ", "Norte", ")">>

\* re.findall(r"(\d{3}\s+.*)", location_text)[0].strip(), "" without match
FullRegion(location_text) ==
    CASE location_text = LocationPagudpud -> RegionPagudpud
      [] location_text = LocationSanFrancisco -> RegionSanFrancisco
      [] OTHER -> <<>>

ExtractLocation(location_text) ==
    IF HasText(location_text)
    THEN LET lat_lon == LatLon(Val(location_text))
             full_region == FullRegion(Val(location_text))
             location_info == parse_region_location(full_region)
         IN (IF Len(lat_lon) >= 2
             THEN [latitude_str |-> lat_lon[1], longitude_str |-> lat_lon[2],
                   latitude |-> parse_coordinate(lat_lon[1]),
                   longitude |-> parse_coordinate(lat_lon[2])]
             ELSE [latitude_str |-> "", longitude_str |-> "",
                   latitude |-> None, longitude |-> None])
            @@ [region |-> full_region, location |-> location_info.location,
                municipality |-> location_info.municipality,
                province |-> location_info.province]
    ELSE [latitude_str |-> "", longitude_str |-> "", latitude |-> None, longitude |-> None,
          region |-> <<>>, location |-> <<>>, municipality |-> <<>>, province |-> <<>>]

\* re.search(r"(\d+)", depth_text) and int()
DepthSearch(depth_text) ==
    CASE depth_text = "010" -> Some(10)
      [] depth_text = "033" -> Some(33)
      [] OTHER -> None

\* the depth in kilometres left unset when the page gives no depth
DepthWithoutDefault(depth_text) ==
    IF HasText(depth_text)
    THEN [depth_str |-> Val(depth_text), depth_km |-> DepthSearch(Val(depth_text))]
    ELSE [depth_str |-> ""]

ExtractDepth(depth_text) ==
    IF HasText(depth_text)
    THEN [depth_str |-> Val(depth_text), depth_km |-> DepthSearch(Val(depth_text))]
    ELSE [depth_str |-> "", depth_km |-> None]

ExtractOrigin(origin_text) ==
    [origin |-> IF HasText(origin_text) THEN Val(origin_text) ELSE ""]

\* parse_magnitude: the type and the value in tenths, (None, None) without match
parse_magnitude(magnitude_str) ==
    CASE magnitude_str = "Ms 5.0" -> <<Some("Ms"), Some(50)>>
      [] magnitude_str = "Mw 4.2" -> <<Some("Mw"), Some(42)>>
      [] OTHER -> <<None, None>>

ExtractMagnitude(magnitude_text) ==
    IF HasText(magnitude_text)
    THEN [magnitude_str |-> Val(magnitude_text),
          magnitude_type |-> parse_magnitude(Val(magnitude_text))[1],
          magnitude_value |-> parse_magnitude(Val(magnitude_text))[2]]
    ELSE [magnitude_str |-> "", magnitude_type |-> None, magnitude_value |-> None]

\* src[:-4] if src.endswith((".png", ".jpg", ".gif")) else src
StripExtension(src) ==
    CASE src = "2025_0803_0147_B1.png" -> "2025_0803_0147_B1"
      [] src = "2025_0803_0147_B2F.jpg" -> "2025_0803_0147_B2F"
      [] OTHER -> src

\* the map image is read from the marked element only
ExtractFilename(src) ==
    [filename |-> IF HasText(src) THEN StripExtension(Val(src)) ELSE ""]

\* the reported and the instrumental observations found in the text
IntensityLists(intensity_text) ==
    CASE intensity_text = "Intensity IV - X, Y" ->
            <<<<[intensity |-> "IV", locations |-> <<"X", "Y">>]>>, <<>>>>
      [] intensity_text = "Intensity III - X Instrumental Intensity: Intensity II - Z" ->
            <<<<[intensity |-> "III", locations |-> <<"X">>]>>,
              <<[intensity |-> "II", locations |-> <<"Z">>]>>>>
      [] OTHER -> <<<<>>, <<>>>>

ExtractIntensities(intensity_text) ==
    IF HasText(intensity_text)
    THEN [reported_intensities |-> IntensityLists(Val(intensity_text))[1],
          instrumental_intensities |-> IntensityLists(Val(intensity_text))[2]]
    ELSE [reported_intensities |-> <<>>, instrumental_intensities |-> <<>>]

\* authors_text.split("/") numbered from 1, each part stripped
SplitAuthors(authors_text) ==
    CASE authors_text = "AB/CD" -> <<"AB", "CD">>
      [] OTHER -> <<authors_text>>

ExtractAuthors(authors_text) ==
    [authors |-> IF HasText(authors_text) THEN SplitAuthors(Val(authors_text)) ELSE <<>>]

\* str.upper()
Upper(text) ==
    CASE text = "No" -> "NO"
      [] text = "Yes" -> "YES"
      [] text = "none" -> "NONE"
      [] OTHER -> text

ExtractDamage(damage_text) ==
    [expecting_damage |-> IF HasText(damage_text) THEN Upper(Val(damage_text)) ELSE ""]

\* re.search(r"([A-Z]+)", page_text): the first run of capital letters
FirstCapitals(page_text) ==
    CASE page_text = "No aftershocks" -> Some("N")
      [] OTHER -> None

ExtractAftershock(page_text) ==
    [expecting_aftershocks |->
        IF ~HasText(page_text) THEN ""
        ELSE IF Upper(Val(page_text)) \in {"YES", "NO"} THEN Upper(Val(page_text))
        ELSE IF FirstCapitals(Val(page_text)) # None THEN Val(FirstCapitals(Val(page_text)))
        ELSE ""]

\* the attributes the block of a field sets
ExtractField(soup, f) ==
    LET text == FieldText(soup, f)
    IN CASE f = "eq_no" -> ExtractEqNo(text)
         [] f = "datetime" -> ExtractDateTime(text)
         [] f = "location" -> ExtractLocation(text)
         [] f = "depth" -> ExtractDepth(text)
         [] f = "origin" -> ExtractOrigin(text)
         [] f = "magnitude" -> ExtractMagnitude(text)
         [] f = "filename" -> ExtractFilename(text)
         [] f = "intensities" -> ExtractIntensities(text)
         [] f = "issued" -> ExtractIssued(text)
         [] f = "authors" -> ExtractAuthors(text)
         [] f = "damage" -> ExtractDamage(text)
         [] f = "aftershock" -> ExtractAftershock(text)

\* the blocks in the order of the function
FieldOrder ==
    <<"eq_no", "datetime", "location", "depth", "origin", "magnitude", "filename",
      "intensities", "issued", "authors", "damage", "aftershock">>

RECURSIVE ExtractFrom(_, _)
ExtractFrom(soup, i) ==
    IF i > Len(FieldOrder) THEN [earthquake_info |-> <<>>, calls |-> <<>>]
    ELSE LET rest == ExtractFrom(soup, i + 1)
         IN [earthquake_info |-> ExtractField(soup, FieldOrder[i]) @@ rest.earthquake_info,
             calls |-> FieldCalls(soup, FieldOrder[i]) \o rest.calls]

\* the record returned and the calls made on the page
extract_earthquake_details(soup) == ExtractFrom(soup, 1)

\* the texts the marked element of a field can hold, and the texts the cell next to
\* its label can hold
MarkerTexts(f) ==
    CASE f = "eq_no" -> {"EARTHQUAKE INFORMATION NO. : 3", "three", ""}
      [] f = "datetime" -> {"03 Aug 2025 - 01:47 AM", "soon - later", "unknown", ""}
      [] f = "location" -> {LocationPagudpud, "somewhere", ""}
      [] f = "depth" -> {"010", "shallow", ""}
      [] f = "origin" -> {"TECTONIC", ""}
      [] f = "magnitude" -> {"Ms 5.0", "strong", ""}
      [] f = "filename" -> {"2025_0803_0147_B1.png", "2025_0803_0147_B2F.jpg", ""}
      [] f = "intensities" -> {"Intensity IV - X, Y", "none felt", ""}
      [] f = "issued" -> {"04 Aug 2025 - 02:05 AM", "soon - later", ""}
      [] f = "authors" -> {"AB/CD", ""}
      [] f = "damage" -> {"No", ""}
      [] f = "aftershock" -> {"NO", "No aftershocks", "none", ""}

LabelTexts(f) ==
    CASE f = "eq_no" -> {"NO. : 4", "three"}
      [] f = "datetime" -> {"04 Aug 2025 - 02:05 AM", "unknown"}
      [] f = "location" -> {LocationSanFrancisco, "somewhere"}
      [] f = "depth" -> {"033", "shallow"}
      [] f = "origin" -> {"VOLCANIC"}
      [] f = "magnitude" -> {"Mw 4.2", "strong"}
      [] f = "filename" -> {"2025_0803_0147_B3.gif"}
      [] f = "intensities" ->
            {"Intensity III - X Instrumental Intensity: Intensity II - Z", "none felt"}
      [] f = "issued" -> {"03 Aug 2025 - 01:47 AM", "unknown"}
      [] f = "authors" -> {"EF"}
      [] f = "damage" -> {"Yes"}
      [] f = "aftershock" -> {"Yes", "none"}

\* what a page can hold for a field
Cells(f) ==
    {[marker |-> marker, label |-> label] :
        marker \in {None} \cup {Some(t) : t \in MarkerTexts(f)},
        label \in {None} \cup {Some(t) : t \in LabelTexts(f)}}

\* the page with every marker and every label, each with a text that parses
StandardPage ==
    [f \in Fields |->
        [marker |-> Some(CASE f = "eq_no" -> "EARTHQUAKE INFORMATION NO. : 3"
                           [] f = "datetime" -> "03 Aug 2025 - 01:47 AM"
                           [] f = "location" -> LocationPagudpud
                           [] f = "depth" -> "010"
                           [] f = "origin" -> "TECTONIC"
                           [] f = "magnitude" -> "Ms 5.0"
                           [] f = "filename" -> "2025_0803_0147_B1.png"
                           [] f = "intensities" -> "Intensity IV - X, Y"
                           [] f = "issued" -> "04 Aug 2025 - 02:05 AM"
                           [] f = "authors" -> "AB/CD"
                           [] f = "damage" -> "No"
                           [] f = "aftershock" -> "NO"),
         label |-> Some(CHOOSE t \in LabelTexts(f) : t # "" /\ t \notin MarkerTexts(f))]]

InitExtract ==
    /\ InitStore /\ InitRun /\ InitTrigger /\ InitDedup /\ InitFetch /\ InitQuery /\ InitCall

\* one call on a page that differs from the standard page in at most two fields
ExtractEarthquakeDetails ==
    /\ call.fn = "none"
    /\ \E f, g \in Fields :
          \E cf \in Cells(f), cg \in Cells(g) :
             LET soup == [[StandardPage EXCEPT ![f] = cf] EXCEPT ![g] = cg]
             IN call' = [fn |-> "extract_earthquake_details", soup |-> soup,
                         out |-> extract_earthquake_details(soup)]
    /\ UNCHANGED <<storeVars, run, trigVars, dedup, fetch, query>>

NextExtract == ExtractEarthquakeDetails

SpecExtract == InitExtract /\ [][NextExtract]_vars

\* the attributes of the record that belong to each field
FieldAttributes(f) ==
    CASE f = "eq_no" -> {"eq_no"}
      [] f = "datetime" -> {"date_str", "time_str", "datetime"}
      [] f = "location" -> {"latitude_str", "longitude_str", "latitude", "longitude", "region",
                            "location", "municipality", "province"}
      [] f = "depth" -> {"depth_str", "depth_km"}
      [] f = "origin" -> {"origin"}
      [] f = "magnitude" -> {"magnitude_str", "magnitude_type", "magnitude_value"}
      [] f = "filename" -> {"filename"}
      [] f = "intensities" -> {"reported_intensities", "instrumental_intensities"}
      [] f = "issued" -> {"issued_date_str", "issued_time_str", "issued_datetime"}
      [] f = "authors" -> {"authors"}
      [] f = "damage" -> {"expecting_damage"}
      [] f = "aftershock" -> {"expecting_aftershocks"}

AllAttributes == UNION {FieldAttributes(f) : f \in Fields}

\* the attributes that hold the text of the page as it was found
RawAttributes ==
    {"date_str", "time_str", "issued_date_str", "issued_time_str", "depth_str", "magnitude_str"}

\* the attributes that are texts
TextAttributes ==
    RawAttributes \cup {"latitude_str", "longitude_str", "origin", "filename",
                        "expecting_damage", "expecting_aftershocks"}

\* the attribute of the record is the empty string, None, or the empty list
IsEmpty(info, a) == IF a \in TextAttributes THEN info[a] = "" ELSE info[a] = <<>>

\* the texts of a field that do not parse
Unparsable(f) ==
    CASE f = "eq_no" -> {"three"}
      [] f \in {"datetime", "issued"} -> {"soon - later", "unknown"}
      [] f = "location" -> {"somewhere"}
      [] f = "depth" -> {"shallow"}
      [] f = "magnitude" -> {"strong"}
      [] f = "intensities" -> {"none felt"}
      [] f = "aftershock" -> {"none"}
      [] OTHER -> {}

Extracted == call.fn = "extract_earthquake_details"

\* neither the marker nor the label of the field is on the page
Absent(f) == call.soup[f].marker = None /\ call.soup[f].label = None

\* the text the field is read from does not parse
FailsToParse(f) ==
    \/ call.soup[f].marker # None /\ Val(call.soup[f].marker) \in Unparsable(f)
    \/ /\ call.soup[f].marker = None /\ call.soup[f].label # None
       /\ Val(call.soup[f].label) \in Unparsable(f)

\* the record has every attribute, and the attributes of the fields other than f are
\* what they are on the page where f is as on the standard page
OthersUnaffected(f) ==
    LET other == extract_earthquake_details([call.soup EXCEPT ![f] = StandardPage[f]])
    IN \A a \in AllAttributes \ FieldAttributes(f) :
          call.out.earthquake_info[a] = other.earthquake_info[a]

\* C23 as stated: the record has every attribute; a field without marker and label,
\* or whose text does not parse, has all its attributes empty or null; the other
\* fields are extracted as they would have been.
C23_EveryAttributeEmptied ==
    Extracted =>
       /\ DOMAIN call.out.earthquake_info = AllAttributes
       /\ \A f \in Fields :
             /\ (Absent(f) \/ FailsToParse(f)) =>
                   \A a \in FieldAttributes(f) : IsEmpty(call.out.earthquake_info, a)
             /\ OthersUnaffected(f)

\* C23: the record has every attribute; a field without marker and label has all
\* its attributes empty or null; a field whose text does not parse has its parsed
\* attributes empty or null, its raw-text attributes being empty or parts of that
\* text; the other fields are extracted as they would have been.
C23_FieldsIndependent ==
    Extracted =>
       /\ DOMAIN call.out.earthquake_info = AllAttributes
       /\ \A f \in Fields :
             /\ Absent(f) => \A a \in FieldAttributes(f) : IsEmpty(call.out.earthquake_info, a)
             /\ FailsToParse(f) =>
                   \A a \in FieldAttributes(f) \ RawAttributes :
                      IsEmpty(call.out.earthquake_info, a)
             /\ OthersUnaffected(f)

\* C23 witness: a page without depth marker and depth label and with a magnitude
\* that does not parse gives a record with the sequence number and the date
C23_Witness ==
    /\ Extracted
    /\ Absent("depth")
    /\ FailsToParse("magnitude")
    /\ call.out.earthquake_info["depth_km"] = None
    /\ call.out.earthquake_info["magnitude_value"] = None
    /\ call.out.earthquake_info["eq_no"] = Some(3)
    /\ call.out.earthquake_info["datetime"] # None


----------------------------------------------------------------------------
(* DailyUpdateScraper: the links of the main page, specification SpecLinks *)

\* The parsed main page is the tuple of its nodes in document order, the order in
\* which next_element walks them: comments, anchors (href None when the attribute
\* is missing) and other elements.
MaxNodes == 4

StartComment == "enter new event below"
EndComment == "end of last event"

\* "target in comment" for the comments of the pages
CommentContains(comment, target) ==
    CASE comment = " enter new event below " -> target = StartComment
      [] comment = " end of last event " -> target = EndComment
      [] OTHER -> FALSE

HrefB1 ==
    <<"2", "0", "2", "5", "_", "0", "8", "0", "3", "_", "0", "1", "4", "7", "_", "B", "1", ".",
      "h", "t", "m", "l">>
HrefPathB2F ==
    <<"2", "0", "2", "5", "_", "E", "a", "r", "t", "h", "q", "u", "a", "k", "e", "_", "I", "n",
      "f", "o", "r", "m", "a", "t", "i", "o", "n", "/", "A", "u", "g", "u", "s", "t", "/", "2",
      "0", "2", "5", "_", "0", "8", "1", "0", "_", "0", "9", "3", "0", "_", "B", "2", "F", ".",
      "h", "t", "m", "l">>
HrefLastYear ==
    <<"2", "0", "2", "4", "_", "1", "2", "3", "1", "_", "2", "3", "5", "9", "_", "B", "1", ".",
      "h", "t", "m", "l">>
HrefIndex ==
    <<"i", "n", "d", "e", "x", ".", "h", "t", "m", "l">>

Comments == {" enter new event below ", " end of last event ", " banner "}

Hrefs == {HrefB1, HrefPathB2F, HrefLastYear, HrefIndex, <<>>}

Nodes ==
    {[kind |-> "comment", text |-> c] : c \in Comments}
    \cup {[kind |-> "a", href |-> h] : h \in {None} \cup {Some(h) : h \in Hrefs}}

Soups == UNION {[1..n -> Nodes] : n \in 0..MaxNodes}

\* str(current_year)
YearDigits(current_year) ==
    CASE current_year = 2024 -> <<"2", "0", "2", "4">>
      [] current_year = 2025 -> <<"2", "0", "2", "5">>

\* lines 128-131: the position of the first comment that contains the target, 0
\* standing for None
get_comment_node(soup, target_comment) ==
    LET found == {i \in DOMAIN soup : /\ soup[i].kind = "comment"
                                      /\ CommentContains(soup[i].text, target_comment)}
    IN IF found = {} THEN 0 ELSE CHOOSE i \in found : \A j \in found : i <= j

\* "if href": the attribute is there and is not empty
HasHref(node) == node.href # None /\ Val(node.href) # <<>>

\* the walk that does not stop at the end comment
RECURSIVE WalkToEnd(_, _)
WalkToEnd(soup, current) ==
    IF current > Len(soup) THEN <<>>
    ELSE (IF soup[current].kind = "a" /\ HasHref(soup[current])
          THEN <<Val(soup[current].href)>> ELSE <<>>)
         \o WalkToEnd(soup, current + 1)

\* lines 178-187: the loop from the node "current" on
RECURSIVE Walk(_, _)
Walk(soup, current) ==
    IF current > Len(soup) THEN <<>>
    ELSE (IF soup[current].kind = "a" /\ HasHref(soup[current])
          THEN <<Val(soup[current].href)>> ELSE <<>>)
         \o (IF soup[current].kind = "comment" /\ CommentContains(soup[current].text, EndComment)
             THEN <<>>
             ELSE Walk(soup, current + 1))

get_all_links_after_comment(soup, comment_text) ==
    LET comment_node == get_comment_node(soup, comment_text)
    IN IF comment_node = 0 THEN <<>> ELSE Walk(soup, comment_node + 1)

\* the pattern with any year: \d{4}_\d{4}_\d{4}.*\.html
SearchAnyYear(href, current_year) ==
    \E i \in 1..(Len(href) - 18) :
       /\ \A k \in 0..3 : href[i + k] \in Digits
       /\ href[i + 4] = "_"
       /\ \A k \in 5..8 : href[i + k] \in Digits
       /\ href[i + 9] = "_"
       /\ \A k \in 10..13 : href[i + k] \in Digits
       /\ \E j \in (i + 14)..(Len(href) - 4) :
             SubSeq(href, j, j + 4) = <<".", "h", "t", "m", "l">>

\* re.compile(f"{current_year}_\d{{4}}_\d{{4}}.*\.html").search(href)
Search(href, current_year) ==
    \E i \in 1..(Len(href) - 18) :
       /\ SubSeq(href, i, i + 3) = YearDigits(current_year)
       /\ href[i + 4] = "_"
       /\ \A k \in 5..8 : href[i + k] \in Digits
       /\ href[i + 9] = "_"
       /\ \A k \in 10..13 : href[i + k] \in Digits
       /\ \E j \in (i + 14)..(Len(href) - 4) :
             SubSeq(href, j, j + 4) = <<".", "h", "t", "m", "l">>

\* lines 147-154: soup.find_all("a", href=re.compile(pattern)) and the hrefs
RECURSIVE get_links_with_regex_fallback(_, _)
get_links_with_regex_fallback(soup, current_year) ==
    IF soup = <<>> THEN <<>>
    ELSE (IF /\ Head(soup).kind = "a"
             /\ Head(soup).href # None
             /\ Search(Val(Head(soup).href), current_year)
          THEN <<Val(Head(soup).href)>> ELSE <<>>)
         \o get_links_with_regex_fallback(Tail(soup), current_year)

\* lines 261-271 of process_daily_updates: the calls made and the links found;
\* the run aborts when there are none
FindLinks(soup, current_year) ==
    LET primary == get_all_links_after_comment(soup, StartComment)
    IN IF primary # <<>>
       THEN [calls |-> <<"get_all_links_after_comment">>, primary |-> primary,
             links |-> primary, aborts |-> FALSE]
       ELSE LET links == get_links_with_regex_fallback(soup, current_year)
            IN [calls |-> <<"get_all_links_after_comment", "get_links_with_regex_fallback">>,
                primary |-> primary, links |-> links, aborts |-> links = <<>>]

InitLinks ==
    /\ InitStore /\ InitRun /\ InitTrigger /\ InitDedup /\ InitFetch /\ InitQuery /\ InitCall

\* the links of one main page, in one of two years
FindLinksOfPage ==
    /\ call.fn = "none"
    /\ \E soup \in Soups, current_year \in {2024, 2025} :
          call' = [fn |-> "process_daily_updates", soup |-> soup,
                   current_year |-> current_year, out |-> FindLinks(soup, current_year)]
    /\ UNCHANGED <<storeVars, run, trigVars, dedup, fetch, query>>

NextLinks == FindLinksOfPage

SpecLinks == InitLinks /\ [][NextLinks]_vars

LinksFound == call.fn = "process_daily_updates"

\* the page has a comment with the given phrase
HasComment(phrase) ==
    \E i \in DOMAIN call.soup :
       call.soup[i].kind = "comment" /\ CommentContains(call.soup[i].text, phrase)

\* the hrefs at the given positions of the page, in the order of the page
RECURSIVE HrefsAt(_, _)
HrefsAt(positions, from) ==
    IF from > Len(call.soup) THEN <<>>
    ELSE (IF from \in positions THEN <<Val(call.soup[from].href)>> ELSE <<>>)
         \o HrefsAt(positions, from + 1)

\* the href names a bulletin of the year: somewhere in it, the year, "_", four
\* digits, "_", four digits, and ".html" further on
IsBulletinOf(href, year) ==
    \E i \in DOMAIN href :
       /\ i + 13 <= Len(href)
       /\ SubSeq(href, i, i + 3) = YearDigits(year)
       /\ href[i + 4] = "_" /\ href[i + 9] = "_"
       /\ \A k \in {5, 6, 7, 8, 10, 11, 12, 13} : href[i + k] \in Digits
       /\ \E j \in DOMAIN href : j >= i + 14 /\ j + 4 <= Len(href)
                                   /\ SubSeq(href, j, j + 4) = <<".", "h", "t", "m", "l">>

BulletinAnchors ==
    {i \in DOMAIN call.soup : /\ call.soup[i].kind = "a"
                               /\ call.soup[i].href # None
                               /\ IsBulletinOf(Val(call.soup[i].href), call.current_year)}

\* C24: on a page without the two sentinel comments that has anchors of bulletins of
\* the current year, the links found are the hrefs of exactly those anchors, in the
\* order of the page; on every page the fallback is called if and only if the scan
\* after the comment found nothing, and no links are found only if both found nothing.
C24_FallbackLinks ==
    LinksFound =>
       /\ (~HasComment(StartComment) /\ ~HasComment(EndComment) /\ BulletinAnchors # {}) =>
             call.out.links = HrefsAt(BulletinAnchors, 1)
       /\ ("get_links_with_regex_fallback" \in Range(call.out.calls)) <=> call.out.primary = <<>>
       /\ call.out.primary # <<>> => call.out.links = call.out.primary
       /\ call.out.links = <<>> =>
             /\ call.out.primary = <<>>
             /\ BulletinAnchors = {}
       /\ call.out.aborts <=> call.out.links = <<>>

\* C24 witness: a page without comments has a bulletin of last year between two
\* bulletins of this year, and the two of this year are the links found
C24_Witness ==
    /\ LinksFound
    /\ ~HasComment(StartComment) /\ ~HasComment(EndComment)
    /\ call.current_year = 2025
    /\ \E i \in DOMAIN call.soup : call.soup[i].kind = "a" /\ call.soup[i].href = Some(HrefLastYear)
    /\ call.out.links = <<HrefPathB2F, HrefB1>>

\* the position of the start comment the scan begins after: the first one
FirstStart ==
    CHOOSE i \in DOMAIN call.soup :
       /\ call.soup[i].kind = "comment" /\ CommentContains(call.soup[i].text, StartComment)
       /\ \A j \in 1..(i - 1) :
             ~(call.soup[j].kind = "comment" /\ CommentContains(call.soup[j].text, StartComment))

\* the position of the first end comment after the start comment, or the position
\* after the last node
FirstEndAfterStart ==
    LET ends == {i \in (FirstStart + 1)..Len(call.soup) :
                    call.soup[i].kind = "comment" /\ CommentContains(call.soup[i].text, EndComment)}
    IN IF ends = {} THEN Len(call.soup) + 1 ELSE CHOOSE i \in ends : \A j \in ends : i <= j

\* the anchors with a target between the two
AnchorsBetween ==
    {i \in (FirstStart + 1)..(FirstEndAfterStart - 1) :
        /\ call.soup[i].kind = "a"
        /\ call.soup[i].href # None
        /\ Val(call.soup[i].href) # <<>>}

\* C28: the scan after the comment returns nothing when the page has no start
\* comment, and otherwise the hrefs, in the order of the page, of exactly the anchors
\* with a target that come after the first start comment and before the first end
\* comment that follows it, or the end of the page.
C28_LinksBetweenComments ==
    LinksFound =>
       IF ~HasComment(StartComment) THEN call.out.primary = <<>>
       ELSE call.out.primary = HrefsAt(AnchorsBetween, 1)

\* C28 witness: a page has the start comment, an anchor, the end comment and another
\* anchor, and the scan returns the first anchor only
C28_Witness ==
    /\ LinksFound
    /\ Len(call.soup) = 4
    /\ call.soup[1].kind = "comment" /\ CommentContains(call.soup[1].text, StartComment)
    /\ call.soup[2].kind = "a" /\ call.soup[2].href = Some(HrefB1)
    /\ call.soup[3].kind = "comment" /\ CommentContains(call.soup[3].text, EndComment)
    /\ call.soup[4].kind = "a" /\ call.soup[4].href = Some(HrefPathB2F)
    /\ call.out.primary = <<HrefB1>>


----------------------------------------------------------------------------
(* Claims about the status of a triggered run *)

\* C25: when the run of a thread completes, by returning statistics, by returning
\* None after a fetch failure or for lack of links, or by raising, the status then
\* holds a result that is not null, and its progress does not say "Completed
\* successfully" if the run returned None or raised.
C25_ResultAvailable ==
    [][\A t \in DOMAIN threads :
          (threads[t].pc = "process_daily_updates" /\ threads'[t].pc = "finally") =>
             /\ scraper_status'.last_result # None
             /\ threads'[t].result # "statistics" =>
                   scraper_status'.current_progress # Some("Completed successfully")]_vars

\* the scheduler lets every thread and every request handler take its steps
SpecTriggerFair ==
    /\ SpecTrigger
    /\ \A t \in 1..MaxRequests :
          /\ WF_vars(t \in DOMAIN threads /\ RunScraperBegin(t))
          /\ WF_vars(t \in DOMAIN threads /\ RunScraperRun(t))
          /\ WF_vars(t \in DOMAIN threads /\ RunScraperFinally(t))

\* the threads inside run_scraper after it has set the flag
Alive == {t \in DOMAIN threads : threads[t].pc \in {"process_daily_updates", "finally"}}

\* C30: the step of a thread after process_daily_updates returned or raised clears
\* the flag; the flag is never set while no thread is inside run_scraper; and, the
\* runs terminating, a flag that is set is eventually cleared and every thread that
\* was started eventually finishes.
C30_FlagEventuallyCleared ==
    /\ [][\A t \in DOMAIN threads :
             (threads[t].pc = "finally" /\ threads'[t].pc = "done") =>
                ~scraper_status'.running]_vars
    /\ [](scraper_status.running => Alive # {})
    /\ (scraper_status.running ~> ~scraper_status.running)
    /\ \A t \in 1..MaxRequests :
          (t \in DOMAIN threads) ~> (t \in DOMAIN threads /\ threads[t].pc = "done")

\* C30 witness: the thread of a run that raised has finished and the flag is cleared
C30_Witness ==
    /\ \E t \in DOMAIN threads : threads[t].pc = "done" /\ threads[t].result = "exception"
    /\ ~scraper_status.running
    /\ scraper_status.last_run # None


----------------------------------------------------------------------------
(* parse_region_location on region texts: specification SpecRegion *)

MaxSymbols == 4

Symbols == {"(", ")", " ", "of", "A", "B"}

\* the beginning of a region text: any text of at most MaxSymbols symbols
Beginnings == UNION {[1..n -> Symbols] : n \in 0..MaxSymbols}

\* its end: nothing, or one, two or three parenthesized names
Endings ==
    {<<>>,
     <<" ", "(", "A", ")">>,
     <<" ", "(", "A", ")", " ", "(", " ", "B", " ", "A", ")">>,
     <<"(", "A", ")", " ", "(", "B", ")", " ", "(", "A", " ", "B", ")">>}

RegionTexts ==
    {beginning \o ending : beginning \in Beginnings, ending \in Endings}
    \cup {RegionPagudpud, RegionSanFrancisco}

InitRegion ==
    /\ InitStore /\ InitRun /\ InitTrigger /\ InitDedup /\ InitFetch /\ InitQuery /\ InitCall

ParseRegionLocation ==
    /\ call.fn = "none"
    /\ \E region_str \in RegionTexts :
          call' = [fn |-> "parse_region_location", region_str |-> region_str,
                   out |-> parse_region_location(region_str)]
    /\ UNCHANGED <<storeVars, run, trigVars, dedup, fetch, query>>

NextRegion == ParseRegionLocation

SpecRegion == InitRegion /\ [][NextRegion]_vars

RegionParsed == call.fn = "parse_region_location"

\* the positions of the opening and of the closing parentheses of the region
Opens == {i \in DOMAIN call.region_str : call.region_str[i] = "("}
Closes == {i \in DOMAIN call.region_str : call.region_str[i] = ")"}

\* the k-th smallest position of a set
Nth(positions, k) == CHOOSE i \in positions : Cardinality({j \in positions : j <= i}) = k

\* the parentheses of the region are pairs, one after the other, around a text that
\* is not empty
PairedParentheses ==
    /\ Cardinality(Opens) = Cardinality(Closes)
    /\ \A k \in 1..Cardinality(Opens) :
          /\ Nth(Opens, k) + 1 < Nth(Closes, k)
          /\ k < Cardinality(Opens) => Nth(Closes, k) < Nth(Opens, k + 1)

\* the k-th parenthesized group, trimmed
Group(k) == Strip(SubSeq(call.region_str, Nth(Opens, k) + 1, Nth(Closes, k) - 1))

\* the positions where "of" stands as a word followed by white space
WordsOf ==
    {i \in DOMAIN call.region_str :
        /\ call.region_str[i] = "of"
        /\ i = 1 \/ call.region_str[i - 1] = " "
        /\ i < Len(call.region_str) /\ call.region_str[i + 1] = " "}

\* the region has "of" as a word and nowhere else before it, then a place name, then
\* its first parenthesis
PlaceBeforeParenthesis ==
    /\ WordsOf # {}
    /\ Opens # {}
    /\ \A i \in 1..(Nth(WordsOf, 1) - 1) : call.region_str[i] # "of"
    /\ Nth(WordsOf, 1) < Nth(Opens, 1)
    /\ Strip(SubSeq(call.region_str, Nth(WordsOf, 1) + 1, Nth(Opens, 1) - 1)) # <<>>

\* C26: when the parentheses of a region are pairs, the province is the last group
\* and the municipality is the second-to-last group if there are two or more, and
\* empty otherwise; without any parenthesis both are empty; and when the region has
\* a place name between the word "of" and its first parenthesis, the location is
\* that text, trimmed.
C26_RegionDecomposition ==
    RegionParsed =>
       LET n == Cardinality(Opens)
       IN /\ (PairedParentheses /\ n >= 1) => call.out.province = Group(n)
          /\ (PairedParentheses /\ n >= 2) => call.out.municipality = Group(n - 1)
          /\ (PairedParentheses /\ n = 1) => call.out.municipality = <<>>
          /\ (Opens = {} /\ Closes = {}) =>
                call.out.province = <<>> /\ call.out.municipality = <<>>
          /\ PlaceBeforeParenthesis =>
                call.out.location =
                   Strip(SubSeq(call.region_str, Nth(WordsOf, 1) + 1, Nth(Opens, 1) - 1))
          /\ call.region_str = RegionSanFrancisco =>
                call.out = [location |-> <<"San", " ", "Francisco">>,
                            municipality |-> <<"Anao-aon">>,
                            province |-> <<"Surigao", " ", "Del", " ", "Norte">>]
          /\ call.region_str = RegionPagudpud =>
                call.out = [location |-> <<"Pagudpud">>, municipality |-> <<>>,
                            province |-> <<"Ilocos", " ", "Norte">>]

\* C26 witness: a region with a place name and three parenthesized names is
\* decomposed into the place, the second name and the third name
C26_Witness ==
    /\ RegionParsed
    /\ PairedParentheses
    /\ PlaceBeforeParenthesis
    /\ Cardinality(Opens) = 3
    /\ call.out.location = <<"B">>
    /\ call.out.municipality = <<"B">>
    /\ call.out.province = <<"A", " ", "B">>


----------------------------------------------------------------------------
(* Claims about the page extractor and the counters of a run *)

\* the label scan of the field was called
FallbackAttempted(f) ==
    \E i \in DOMAIN call.out.calls :
       /\ call.out.calls[i][1] = "extract_label_block"
       /\ Label(f) # None
       /\ call.out.calls[i][2] = Val(Label(f))

\* the attributes of the field are those its block extracts from the given text
ExtractedFrom(f, text) ==
    LET page == [call.soup EXCEPT ![f] = [marker |-> text, label |-> None]]
    IN \A a \in FieldAttributes(f) :
          call.out.earthquake_info[a] = extract_earthquake_details(page).earthquake_info[a]

\* C27: for each of the twelve fields, when the marker comment is on the page the
\* field is read from the marked element and the label scan is not called for it;
\* when the marker is not on the page the label scan is called for it and the field
\* is read from the cell next to the label.
C27_MarkerThenFallback ==
    Extracted =>
       \A f \in Fields :
          /\ call.soup[f].marker # None =>
                ~FallbackAttempted(f) /\ ExtractedFrom(f, call.soup[f].marker)
          /\ call.soup[f].marker = None =>
                FallbackAttempted(f) /\ ExtractedFrom(f, call.soup[f].label)

\* the counters of the run
Counters(r) == <<r.successful, r.skipped, r.failed>>

\* C29: every iteration of the loop adds one to exactly one counter: to successful for
\* an event inserted or updated, to skipped for an event skipped, to failed for every
\* other result and for an exception; in the loop the counters add up to the number
\* of links processed, and the statistics returned hold the counters, which add up
\* to the total, the number of links.
C29_ExactlyOneCounter ==
    /\ [][(run.pc = "loop" /\ run'.pc = "loop" /\ run'.i = run.i + 1) =>
             /\ last'.op = "scrape_and_update_single_eq"
             /\ Counters(run') =
                   IF last'.result \in {Inserted, Updated}
                   THEN <<run.successful + 1, run.skipped, run.failed>>
                   ELSE IF last'.result = Skipped
                   THEN <<run.successful, run.skipped + 1, run.failed>>
                   ELSE <<run.successful, run.skipped, run.failed + 1>>]_vars
    /\ [][(run.pc = "loop" /\ run'.pc = "returned") =>
             /\ run.i = Len(run.links)
             /\ run'.result =
                   Some([total |-> Len(run.links), successful |-> run.successful,
                         skipped |-> run.skipped, failed |-> run.failed])
             /\ run.successful + run.skipped + run.failed = Len(run.links)]_vars
    /\ [](run.pc = "loop" => run.successful + run.skipped + run.failed = run.i)

\* C29 witness: a run of three links has returned with one event stored, one skipped
\* and one failed
C29_Witness ==
    /\ run.pc = "returned"
    /\ run.result # None
    /\ Val(run.result) = [total |-> 3, successful |-> 1, skipped |-> 1, failed |-> 1]

====
